---- MODULE Spec2Model ----
(***************************************************************************)
(* Model of the token aggregation backend: the outbound RateLimiter and    *)
(* retryWithBackoff (utils/retry), and the AggregationService pipeline     *)
(* (merge, filter, sort, paginate) with its cache-aside use of             *)
(* CacheService.                                                           *)
(***************************************************************************)
EXTENDS Integers, Sequences, FiniteSets, TLC

(***************************************************************************)
(* Bounds of the model.                                                    *)
(***************************************************************************)
\* the clock runs over 0..MaxTime
MaxTime == 4
\* total number of acquire() calls explored
MaxAcquires == 6
\* RateLimiter constructor arguments (scaled down from 300 per 60000 ms)
maxRequests == 2
windowMs == 3
\* number of AggregationService calls explored
MaxCalls == 2
\* config.cache.ttl in clock ticks (scaled down from 30 s)
cacheTtl == 2

Procs == {"p1", "p2"}
Callers == {"c1"}

VARIABLES
    now,            \* Date.now()
    requestCount,   \* RateLimiter.requestCount
    windowStart,    \* RateLimiter.windowStart
    lpc,            \* per caller: "idle" (not inside acquire) or "sleeping" (awaiting sleep)
    wakeAt,         \* per sleeping caller: the time its setTimeout is due
    calls,          \* history: number of acquire() calls made so far
    winCalls,       \* history: acquire() calls made since windowStart was last assigned
    winAdmitted,    \* history: calls admitted since windowStart was last assigned
    winFresh,       \* history: the current window was opened with counter 0
    admitLog,       \* history: time -> number of calls admitted at that time
    rcfg,           \* retryWithBackoff: the RetryConfig passed in
    rpc,            \* retryWithBackoff: "idle", "call" (awaiting fn()), "sleep", "returned", "thrown"
    attempt,        \* retryWithBackoff: the loop variable
    lastError,      \* retryWithBackoff: lastError
    rout,           \* retryWithBackoff: the value returned or the error thrown
    history,        \* history: the outcome of every invocation of fn, in order
    delays,         \* history: the argument of every sleep(delay), in order
    cache,          \* the Redis store: prefixed key -> [val, exp]
    upstream,       \* what the two upstream APIs currently serve
    call,           \* per caller of AggregationService: the call in progress or last finished
    ncalls,         \* history: number of AggregationService calls started
    pureIn,            \* a direct call of one of the service's pure methods: its arguments
    pureOut,            \* that call's result, Absent until the method has run
    cacheOp,        \* the last CacheService operation made directly: what it was and returned
    ncops,          \* history: number of direct CacheService operations
    previousTokens, \* SocketManager.previousTokens: token_address -> Token
    tick,           \* the checkForUpdates run in progress: its position and locals
    emitted,        \* history: the events the last checkForUpdates emitted, in order
    nticks,         \* history: number of checkForUpdates runs started
    updateInterval, \* SocketManager.updateInterval: the timer handle, Absent for null
    timers,         \* the interval timers of the runtime that are armed
    nstops,         \* history: number of stop() calls made
    clientFilters,  \* SocketManager.clientFilters: socket id -> QueryOptions
    sockets,        \* per socket id: "unused", "connected" or "closed"
    inbound,        \* the last request through the rateLimiter middleware and its answer
    adapter         \* the upstream adapter call in progress: its position and history

limVars == <<requestCount, windowStart, lpc, wakeAt, calls, winCalls,
             winAdmitted, winFresh, admitLog>>
retryVars == <<rcfg, rpc, attempt, lastError, rout, history, delays>>
aggVars == <<cache, upstream, call, ncalls>>
pureVars == <<pureIn, pureOut>>
cacheOpVars == <<cacheOp, ncops>>
sockVars == <<previousTokens, tick, emitted, nticks>>
mgrVars == <<updateInterval, timers, nstops, clientFilters, sockets>>
vars == <<now, limVars, retryVars, aggVars, pureVars, cacheOpVars, sockVars, mgrVars,
          inbound, adapter>>

Min(a, b) == IF a <= b THEN a ELSE b
MaxLeft(a, b) == a
MaxSum(a, b) == a + b
Max(a, b) == IF a >= b THEN a ELSE b

\* an optional value: <<>> is undefined / null, <<v>> is v
Absent == <<>>
Some(v) == <<v>>
IsSome(o) == o # <<>>
Val(o) == o[1]

(***************************************************************************)
(* Strings of the cursor encoding are sequences of characters.             *)
(***************************************************************************)
B64Alphabet ==
    << "A","B","C","D","E","F","G","H","I","J","K","L","M","N","O","P",
       "Q","R","S","T","U","V","W","X","Y","Z","a","b","c","d","e","f",
       "g","h","i","j","k","l","m","n","o","p","q","r","s","t","u","v",
       "w","x","y","z","0","1","2","3","4","5","6","7","8","9","+","/" >>

Digits == <<"0","1","2","3","4","5","6","7","8","9">>

\* UTF-8 code of the characters that occur in decimal numbers and in the
\* non-numeric cursor texts explored
ByteOf(ch) ==
    IF \E i \in 1..10 : Digits[i] = ch
    THEN 47 + (CHOOSE i \in 1..10 : Digits[i] = ch)
    ELSE CASE ch = "-" -> 45
           [] ch = "a" -> 97
           [] ch = "b" -> 98
           [] ch = "c" -> 99
           [] OTHER -> 63

CharOf(b) ==
    IF b \in 48..57 THEN Digits[b - 47]
    ELSE CASE b = 45 -> "-"
           [] b = 97 -> "a"
           [] b = 98 -> "b"
           [] b = 99 -> "c"
           [] OTHER -> "?"

\* Number.prototype.toString() of an integer
RECURSIVE NatToString(_)
NatToString(n) ==
    IF n < 10 THEN <<Digits[n + 1]>>
    ELSE NatToString(n \div 10) \o <<Digits[(n % 10) + 1]>>

IntToString(n) == IF n < 0 THEN <<"-">> \o NatToString(-n) ELSE NatToString(n)

Bytes(str) == [i \in 1..Len(str) |-> ByteOf(str[i])]
Text(bytes) == [i \in 1..Len(bytes) |-> CharOf(bytes[i])]

\* Buffer.toString('base64')
RECURSIVE B64Encode(_)
B64Encode(bs) ==
    IF Len(bs) = 0 THEN <<>>
    ELSE IF Len(bs) = 1 THEN
        << B64Alphabet[(bs[1] \div 4) + 1],
           B64Alphabet[((bs[1] % 4) * 16) + 1], "=", "=" >>
    ELSE IF Len(bs) = 2 THEN
        << B64Alphabet[(bs[1] \div 4) + 1],
           B64Alphabet[((bs[1] % 4) * 16 + (bs[2] \div 16)) + 1],
           B64Alphabet[((bs[2] % 16) * 4) + 1], "=" >>
    ELSE
        << B64Alphabet[(bs[1] \div 4) + 1],
           B64Alphabet[((bs[1] % 4) * 16 + (bs[2] \div 16)) + 1],
           B64Alphabet[((bs[2] % 16) * 4 + (bs[3] \div 64)) + 1],
           B64Alphabet[(bs[3] % 64) + 1] >> \o B64Encode(SubSeq(bs, 4, Len(bs)))

IsB64Char(ch) == \E i \in 1..64 : B64Alphabet[i] = ch
Sextet(ch) == (CHOOSE i \in 1..64 : B64Alphabet[i] = ch) - 1

\* the sextets of a base64 text up to its padding; other characters are skipped
RECURSIVE Sextets(_)
Sextets(str) ==
    IF Len(str) = 0 \/ str[1] = "=" THEN <<>>
    ELSE IF IsB64Char(str[1]) THEN <<Sextet(str[1])>> \o Sextets(Tail(str))
    ELSE Sextets(Tail(str))

RECURSIVE SextetsToBytes(_)
SextetsToBytes(sx) ==
    IF Len(sx) < 2 THEN <<>>
    ELSE IF Len(sx) = 2 THEN << sx[1] * 4 + (sx[2] \div 16) >>
    ELSE IF Len(sx) = 3 THEN
        << sx[1] * 4 + (sx[2] \div 16), (sx[2] % 16) * 16 + (sx[3] \div 4) >>
    ELSE
        << sx[1] * 4 + (sx[2] \div 16), (sx[2] % 16) * 16 + (sx[3] \div 4),
           (sx[3] % 4) * 64 + sx[4] >> \o SextetsToBytes(SubSeq(sx, 5, Len(sx)))

\* Buffer.from(str, 'base64')
B64Decode(str) == SextetsToBytes(Sextets(str))

IsDigit(ch) == \E i \in 1..10 : Digits[i] = ch
DigitVal(ch) == (CHOOSE i \in 1..10 : Digits[i] = ch) - 1

RECURSIVE LeadingDigits(_, _)
LeadingDigits(str, acc) ==
    IF Len(str) = 0 \/ ~IsDigit(str[1]) THEN acc
    ELSE LeadingDigits(Tail(str), acc * 10 + DigitVal(str[1]))

\* parseInt(str): <<>> stands for NaN
ParseInt(str) ==
    LET neg == Len(str) > 0 /\ str[1] = "-"
        body == IF neg THEN Tail(str) ELSE str
    IN  IF Len(body) = 0 \/ ~IsDigit(body[1]) THEN <<>>
        ELSE <<(IF neg THEN -1 ELSE 1) * LeadingDigits(body, 0)>>

\* Buffer.from(n.toString()).toString('base64')
EncodeCursor(n) == B64Encode(Bytes(IntToString(n)))
\* parseInt(Buffer.from(cursor, 'base64').toString('utf-8'))
DecodeCursor(c) == ParseInt(Text(B64Decode(c)))


(***************************************************************************)
(* RateLimiter.acquire                                                     *)
(***************************************************************************)
\* if (now - this.windowStart >= this.windowMs)
WindowExpired(n, ws) == n - ws >= windowMs

UnderLimitOffByOne(rc) == rc <= maxRequests
\* if (this.requestCount < this.maxRequests)
UnderLimit(rc) == rc < maxRequests

\* a wait of one whole window from the moment of the call
WaitTimeFullWindow(n, ws) == windowMs
\* const waitTime = this.windowMs - (now - this.windowStart)
WaitTime(n, ws) == windowMs - (n - ws)

LimiterInit ==
    /\ requestCount = 0
    /\ windowStart = 0
    /\ lpc = [p \in Procs |-> "idle"]
    /\ wakeAt = [p \in Procs |-> 0]
    /\ calls = 0
    /\ winCalls = 0
    /\ winAdmitted = 0
    /\ winFresh = TRUE
    /\ admitLog = [t \in 0..MaxTime |-> 0]

\* acquire() up to its return or its await sleep(waitTime): the limiter's part
AcquireStep(p) ==
    /\ lpc[p] = "idle"
    /\ calls < MaxAcquires
    /\ LET expired == WindowExpired(now, windowStart)
           rc == IF expired THEN 0 ELSE requestCount
           ws == IF expired THEN now ELSE windowStart
       IN  /\ windowStart' = ws
           /\ calls' = calls + 1
           /\ winCalls' = IF expired THEN 1 ELSE winCalls + 1
           /\ winFresh' = IF expired THEN TRUE ELSE winFresh
           /\ IF UnderLimit(rc)
              THEN /\ requestCount' = rc + 1
                   /\ winAdmitted' = IF expired THEN 1 ELSE winAdmitted + 1
                   /\ admitLog' = [admitLog EXCEPT ![now] = @ + 1]
                   /\ UNCHANGED <<lpc, wakeAt>>
              ELSE /\ requestCount' = rc
                   /\ winAdmitted' = IF expired THEN 0 ELSE winAdmitted
                   /\ lpc' = [lpc EXCEPT ![p] = "sleeping"]
                   /\ wakeAt' = [wakeAt EXCEPT ![p] = now + WaitTime(now, ws)]
                   /\ UNCHANGED admitLog

\* acquire() up to its return or its await sleep(waitTime)
Acquire(p) ==
    /\ AcquireStep(p)
    /\ UNCHANGED <<now, retryVars, mgrVars, inbound, adapter, aggVars, pureVars, cacheOpVars, sockVars>>

\* the continuation after await sleep(waitTime): the timer fires no earlier than due
Wake(p) ==
    /\ lpc[p] = "sleeping"
    /\ now >= wakeAt[p]
    /\ requestCount' = 1
    /\ windowStart' = now
    /\ lpc' = [lpc EXCEPT ![p] = "idle"]
    /\ winCalls' = 0
    /\ winAdmitted' = 1
    /\ winFresh' = FALSE
    /\ admitLog' = [admitLog EXCEPT ![now] = @ + 1]
    /\ UNCHANGED <<now, wakeAt, calls, retryVars, mgrVars, inbound, adapter, aggVars, pureVars, cacheOpVars, sockVars>>

\* the expiry of a Redis key that has no time-to-live
NoExpiry == 0 - 1

\* the clock advances; Redis drops the entries whose time-to-live has elapsed
Tick ==
    /\ now < MaxTime
    /\ now' = now + 1
    /\ cache' = [k \in {j \in DOMAIN cache :
                            cache[j].exp = NoExpiry \/ cache[j].exp > now + 1} |-> cache[k]]
    /\ UNCHANGED <<limVars, retryVars, mgrVars, inbound, adapter, upstream, call, ncalls, pureVars, cacheOpVars, sockVars>>

(***************************************************************************)
(* retryWithBackoff                                                        *)
(***************************************************************************)
\* config.retry
maxRetries == 3
initialDelay == 1000
maxDelay == 10000
backoffMultiplier == 2

ConfigRetry == [maxRetries |-> maxRetries, initialDelay |-> initialDelay,
                maxDelay |-> maxDelay, backoffMultiplier |-> backoffMultiplier]

\* the policies retryWithBackoff is explored with: config.retry and every policy
\* with fewer retries, with and without a maxDelay that caps the schedule
RetryConfigs ==
    {[ConfigRetry EXCEPT !.maxRetries = m, !.maxDelay = d] :
        m \in 0..maxRetries, d \in {maxDelay, 3 * initialDelay}}

\* HTTP status of a failure; 0 stands for an error without error.response
Statuses == {0, 500, 429, 404, 401, 403}

\* what one invocation of fn can do: resolve, or reject with an error
Outcomes(n) ==
    {[ok |-> TRUE, inv |-> n, status |-> 200]}
        \cup {[ok |-> FALSE, inv |-> n, status |-> st] : st \in Statuses}

UnknownError == [ok |-> FALSE, inv |-> 0, status |-> 0]

NonRetryableWithout403(e) == e.status # 0 /\ e.status \in {404, 401}
\* error.response?.status && [404, 401, 403].includes(error.response.status)
NonRetryable(e) == e.status # 0 /\ e.status \in {404, 401, 403}

LoopCondOneMore(a, cfg) == a <= cfg.maxRetries + 1
\* for (...; attempt <= config.maxRetries; ...)
LoopCond(a, cfg) == a <= cfg.maxRetries

RECURSIVE Pow(_, _)
Pow(b, e) == IF e = 0 THEN 1 ELSE b * Pow(b, e - 1)

\* a schedule without the cap of maxDelay
DelayUncapped(a, cfg) == cfg.initialDelay * Pow(cfg.backoffMultiplier, a)
\* Math.min(config.initialDelay * Math.pow(config.backoffMultiplier, attempt), config.maxDelay)
Delay(a, cfg) == Min(cfg.initialDelay * Pow(cfg.backoffMultiplier, a), cfg.maxDelay)

RetryInit ==
    /\ rcfg = ConfigRetry
    /\ rpc = "idle"
    /\ attempt = 0
    /\ lastError = UnknownError
    /\ rout = UnknownError
    /\ history = <<>>
    /\ delays = <<>>

\* the loop head: invoke fn again, or leave the loop and throw lastError
RetryLoop(a, cfg, err) ==
    IF LoopCond(a, cfg)
    THEN rpc' = "call" /\ rout' = rout
    ELSE rpc' = "thrown" /\ rout' = err

\* a call of retryWithBackoff(fn, config), up to its first await fn(): the
\* function's own variables
RetryBegin(cfg) ==
    /\ rpc \in {"idle", "returned", "thrown"}
    /\ rcfg' = cfg
    /\ attempt' = 0
    /\ lastError' = UnknownError
    /\ history' = <<>>
    /\ delays' = <<>>
    /\ RetryLoop(0, cfg, UnknownError)

\* a call of retryWithBackoff(fn, config), up to its first await fn()
RetryStart(cfg) ==
    /\ RetryBegin(cfg)
    /\ UNCHANGED <<now, limVars, mgrVars, inbound, adapter, aggVars, pureVars, cacheOpVars, sockVars>>

\* await fn() settles with outcome o: the return, or the catch block up to its
\* throw, its await sleep(delay), or (on the last attempt) the end of the loop
RetryInvoke(o) ==
    /\ rpc = "call"
    /\ history' = Append(history, o)
    /\ rcfg' = rcfg
    /\ UNCHANGED <<now, limVars, mgrVars, inbound, adapter, aggVars, pureVars, cacheOpVars, sockVars>>
    /\ IF o.ok
       THEN /\ rpc' = "returned"
            /\ rout' = o
            /\ UNCHANGED <<attempt, lastError, delays>>
       ELSE /\ lastError' = o
            /\ IF NonRetryable(o)
               THEN /\ rpc' = "thrown"
                    /\ rout' = o
                    /\ UNCHANGED <<attempt, delays>>
               ELSE IF attempt < rcfg.maxRetries
                    THEN /\ rpc' = "sleep"
                         /\ delays' = Append(delays, Delay(attempt, rcfg))
                         /\ UNCHANGED <<attempt, rout>>
                    ELSE /\ attempt' = attempt + 1
                         /\ RetryLoop(attempt + 1, rcfg, o)
                         /\ UNCHANGED delays

\* await sleep(delay) resolves: attempt++ and the loop head
RetrySleepDone ==
    /\ rpc = "sleep"
    /\ attempt' = attempt + 1
    /\ RetryLoop(attempt + 1, rcfg, lastError)
    /\ UNCHANGED <<rcfg, lastError, history, delays, now, limVars, mgrVars, inbound, adapter, aggVars, pureVars, cacheOpVars, sockVars>>


(***************************************************************************)
(* Token records and the data the two upstream APIs serve.                 *)
(* Strings that are only compared are TLA+ strings; "" is the empty        *)
(* string. Prices are in hundredths of a SOL.                              *)
(***************************************************************************)
\* String.prototype.toLowerCase() on the addresses that occur
Lower(a) == IF a = "Addr1" THEN "addr1" ELSE a

TokA == [token_address |-> "addr1", token_name |-> "Token A", token_ticker |-> "TKA",
         price_sol |-> 50, market_cap_sol |-> 1000, volume_sol |-> 500,
         liquidity_sol |-> 200, transaction_count |-> 100, price_1hr_change |-> 5,
         price_24hr_change |-> Absent, price_7d_change |-> Absent,
         protocol |-> "Raydium", dex_id |-> Absent, last_updated |-> 1]

TokB == [token_address |-> "addr2", token_name |-> "Token B", token_ticker |-> "TKB",
         price_sol |-> 150, market_cap_sol |-> 2000, volume_sol |-> 1000,
         liquidity_sol |-> 400, transaction_count |-> 200, price_1hr_change |-> -3,
         price_24hr_change |-> Absent, price_7d_change |-> Absent,
         protocol |-> "Orca", dex_id |-> Absent, last_updated |-> 1]

\* a record as JupiterService.transformToken produces it
JupToken(addr, name, ticker) ==
    [token_address |-> addr, token_name |-> name, token_ticker |-> ticker,
     price_sol |-> 0, market_cap_sol |-> 0, volume_sol |-> 0, liquidity_sol |-> 0,
     transaction_count |-> 0, price_1hr_change |-> 0, price_24hr_change |-> Some(0),
     price_7d_change |-> Absent, protocol |-> "Jupiter", dex_id |-> Some("jupiter"),
     last_updated |-> 2]

JupA == JupToken("Addr1", "Token A", "TKA")
JupC == JupToken("addr3", "Token C", "TKC")

\* the upstream contents explored: what getTrendingTokens / getAllTokens resolve to
Scenarios ==
    { [dex |-> <<TokA, TokB>>, jup |-> <<JupA>>],
      [dex |-> <<TokB>>, jup |-> <<JupA, JupC>>] }

(***************************************************************************)
(* QueryOptions: every field is optional.                                  *)
(***************************************************************************)
NoOptions == [limit |-> Absent, cursor |-> Absent, time_period |-> Absent,
              sort_by |-> Absent, sort_order |-> Absent,
              min_volume |-> Absent, min_liquidity |-> Absent]

\* a cursor that is base64 of a text that is no number ("abc")
GarbageCursor == <<"Y", "W", "J", "j">>

\* the options the callers pass
AggOptions ==
    { [NoOptions EXCEPT !.limit = Some(1), !.cursor = cu] :
        cu \in {Absent, Some(EncodeCursor(1))} }
    \cup { NoOptions, [NoOptions EXCEPT !.min_volume = Some(750)] }

\* a || b on numbers, on strings, and on optional numbers and strings
OrNum(a, b) == IF a # 0 THEN a ELSE b
OrStr(a, b) == IF a # "" THEN a ELSE b
OrOptNum(a, b) == IF IsSome(a) /\ Val(a) # 0 THEN a ELSE b
OrOptStr(a, b) == IF IsSome(a) /\ Val(a) # "" THEN a ELSE b
\* options.x || dflt
OptNumOr(o, dflt) == IF IsSome(o) /\ Val(o) # 0 THEN Val(o) ELSE dflt
OptStrOr(o, dflt) == IF IsSome(o) /\ Val(o) # "" THEN Val(o) ELSE dflt

\* config.pagination
defaultLimit == 20
maxLimit == 100

(***************************************************************************)
(* AggregationService: the pure pipeline                                   *)
(***************************************************************************)
\* mergeSingleToken
MergeSingleToken(token1, token2) ==
    [token_address |-> token1.token_address,
     token_name |-> OrStr(token1.token_name, token2.token_name),
     token_ticker |-> OrStr(token1.token_ticker, token2.token_ticker),
     price_sol |-> OrNum(token1.price_sol, token2.price_sol),
     market_cap_sol |-> Max(token1.market_cap_sol, token2.market_cap_sol),
     volume_sol |-> Max(token1.volume_sol, token2.volume_sol),
     liquidity_sol |-> Max(token1.liquidity_sol, token2.liquidity_sol),
     transaction_count |-> Max(token1.transaction_count, token2.transaction_count),
     price_1hr_change |-> OrNum(token1.price_1hr_change, token2.price_1hr_change),
     price_24hr_change |-> OrOptNum(token1.price_24hr_change, token2.price_24hr_change),
     price_7d_change |-> OrOptNum(token1.price_7d_change, token2.price_7d_change),
     protocol |-> IF token1.protocol # "Unknown" THEN token1.protocol ELSE token2.protocol,
     dex_id |-> OrOptStr(token1.dex_id, token2.dex_id),
     last_updated |-> Max(token1.last_updated, token2.last_updated)]

\* a grouping by the address as spelled
MergeIntoCaseSensitive(tokenMap, token) ==
    LET address == token.token_address
        has == \E i \in 1..Len(tokenMap) : tokenMap[i].token_address = address
    IN  IF ~has THEN Append(tokenMap, token)
        ELSE [i \in 1..Len(tokenMap) |->
                IF tokenMap[i].token_address = address
                THEN MergeSingleToken(tokenMap[i], token)
                ELSE tokenMap[i]]

\* one iteration of the loop of mergeTokens: tokenMap is the Map's values in
\* insertion order (Map.set on a present key keeps the key's position)
MergeInto(tokenMap, token) ==
    LET address == Lower(token.token_address)
        has == \E i \in 1..Len(tokenMap) : Lower(tokenMap[i].token_address) = address
    IN  IF ~has THEN Append(tokenMap, token)
        ELSE [i \in 1..Len(tokenMap) |->
                IF Lower(tokenMap[i].token_address) = address
                THEN MergeSingleToken(tokenMap[i], token)
                ELSE tokenMap[i]]

RECURSIVE MergeLoop(_, _)
MergeLoop(tokenMap, tokens) ==
    IF tokens = <<>> THEN tokenMap
    ELSE MergeLoop(MergeInto(tokenMap, Head(tokens)), Tail(tokens))

\* mergeTokens
MergeTokens(tokens) == MergeLoop(<<>>, tokens)

ApplyFiltersStrict(tokens, options) ==
    LET KeepVolume(t) == t.volume_sol > Val(options.min_volume)
        KeepLiquidity(t) == t.liquidity_sol > Val(options.min_liquidity)
        byVolume == IF IsSome(options.min_volume) /\ Val(options.min_volume) # 0
                    THEN SelectSeq(tokens, KeepVolume) ELSE tokens
    IN  IF IsSome(options.min_liquidity) /\ Val(options.min_liquidity) # 0
        THEN SelectSeq(byVolume, KeepLiquidity) ELSE byVolume
ApplyFiltersReversed(tokens, options) ==
    LET KeepVolume(t) == t.volume_sol <= Val(options.min_volume)
        KeepLiquidity(t) == t.liquidity_sol <= Val(options.min_liquidity)
        byVolume == IF IsSome(options.min_volume) /\ Val(options.min_volume) # 0
                    THEN SelectSeq(tokens, KeepVolume) ELSE tokens
    IN  IF IsSome(options.min_liquidity) /\ Val(options.min_liquidity) # 0
        THEN SelectSeq(byVolume, KeepLiquidity) ELSE byVolume
\* applyFilters
ApplyFilters(tokens, options) ==
    LET KeepVolume(t) == t.volume_sol >= Val(options.min_volume)
        KeepLiquidity(t) == t.liquidity_sol >= Val(options.min_liquidity)
        byVolume == IF IsSome(options.min_volume) /\ Val(options.min_volume) # 0
                    THEN SelectSeq(tokens, KeepVolume) ELSE tokens
    IN  IF IsSome(options.min_liquidity) /\ Val(options.min_liquidity) # 0
        THEN SelectSeq(byVolume, KeepLiquidity) ELSE byVolume

\* the switch of applySort's comparator
SortValue(t, sortBy) ==
    CASE sortBy = "volume" -> t.volume_sol
      [] sortBy = "market_cap" -> t.market_cap_sol
      [] sortBy = "liquidity" -> t.liquidity_sol
      [] sortBy = "price_change" -> OrNum(t.price_1hr_change, 0)
      [] OTHER -> t.volume_sol

CompareAscendingByDefault(a, b, options) ==
    LET sortBy == OptStrOr(options.sort_by, "volume")
        sortOrder == OptStrOr(options.sort_order, "asc")
    IN  IF sortOrder = "desc"
        THEN SortValue(b, sortBy) - SortValue(a, sortBy)
        ELSE SortValue(a, sortBy) - SortValue(b, sortBy)
\* the comparator of applySort
Compare(a, b, options) ==
    LET sortBy == OptStrOr(options.sort_by, "volume")
        sortOrder == OptStrOr(options.sort_order, "desc")
    IN  IF sortOrder = "desc"
        THEN SortValue(b, sortBy) - SortValue(a, sortBy)
        ELSE SortValue(a, sortBy) - SortValue(b, sortBy)

\* Array.prototype.sort is stable: x goes behind every element that does not
\* compare greater than it
RECURSIVE InsertSorted(_, _, _)
InsertSorted(sorted, x, options) ==
    IF sorted = <<>> THEN <<x>>
    ELSE IF Compare(Head(sorted), x, options) <= 0
         THEN <<Head(sorted)>> \o InsertSorted(Tail(sorted), x, options)
         ELSE <<x>> \o sorted

RECURSIVE SortLoop(_, _, _)
SortLoop(sorted, rest, options) ==
    IF rest = <<>> THEN sorted
    ELSE SortLoop(InsertSorted(sorted, Head(rest), options), Tail(rest), options)

\* applySort
ApplySort(tokens, options) == SortLoop(<<>>, tokens, options)

SliceInclusive(seq, start, end) ==
    LET len == Len(seq)
        Rel(x) == IF ~IsSome(x) THEN 0
                  ELSE IF Val(x) < 0 THEN Max(len + Val(x), 0) ELSE Min(Val(x), len)
    IN  SubSeq(seq, Rel(start) + 1, Min(Rel(end) + 1, len))
\* Array.prototype.slice(start, end); <<>> stands for NaN
Slice(seq, start, end) ==
    LET len == Len(seq)
        Rel(x) == IF ~IsSome(x) THEN 0
                  ELSE IF Val(x) < 0 THEN Max(len + Val(x), 0) ELSE Min(Val(x), len)
    IN  SubSeq(seq, Rel(start) + 1, Rel(end))

\* const limit = Math.min(options.limit || defaultLimit, maxLimit)
EffectiveLimit(options) == Min(OptNumOr(options.limit, defaultLimit), maxLimit)

\* applyPagination; ts is Date.now()
ApplyPagination(tokens, options, ts) ==
    LET limit == EffectiveLimit(options)
        startIndex == IF IsSome(options.cursor) /\ Val(options.cursor) # <<>>
                      THEN DecodeCursor(Val(options.cursor))
                      ELSE Some(0)
        endIndex == IF IsSome(startIndex) THEN Some(Val(startIndex) + limit) ELSE Absent
    IN  [tokens |-> Slice(tokens, startIndex, endIndex),
         next_cursor |-> IF IsSome(endIndex) /\ Val(endIndex) < Len(tokens)
                         THEN Some(EncodeCursor(Val(endIndex)))
                         ELSE Absent,
         total_count |-> Len(tokens),
         timestamp |-> ts]

\* merge, filter, sort and paginate, as aggregateTokens and searchTokens chain them
Pipeline(allTokens, options, ts) ==
    ApplyPagination(ApplySort(ApplyFilters(MergeTokens(allTokens), options), options),
                    options, ts)

(***************************************************************************)
(* Cache keys are sequences of text pieces; their concatenation is the key *)
(***************************************************************************)
\* Array.prototype.join(':')
RECURSIVE Join(_)
Join(parts) ==
    IF Len(parts) = 0 THEN <<>>
    ELSE IF Len(parts) = 1 THEN parts[1]
    ELSE parts[1] \o <<":">> \o Join(Tail(parts))

\* CACHE_KEY_PREFIX = 'tokens:'
CACHE_KEY_PREFIX == <<"tokens", ":">>

GenerateCacheKeyWithLimit(options) ==
    Join(<< CACHE_KEY_PREFIX, <<"aggregate">>,
            <<OptStrOr(options.sort_by, "volume")>>,
            <<OptStrOr(options.sort_order, "desc")>>,
            <<ToString(OptNumOr(options.min_volume, 0))>>,
            <<ToString(OptNumOr(options.min_liquidity, 0))>>,
            <<ToString(OptNumOr(options.limit, 0))>> >>)
GenerateCacheKeyNoLiquidity(options) ==
    Join(<< CACHE_KEY_PREFIX, <<"aggregate">>,
            <<OptStrOr(options.sort_by, "volume")>>,
            <<OptStrOr(options.sort_order, "desc")>>,
            <<ToString(OptNumOr(options.min_volume, 0))>> >>)
\* generateCacheKey
GenerateCacheKey(options) ==
    Join(<< CACHE_KEY_PREFIX, <<"aggregate">>,
            <<OptStrOr(options.sort_by, "volume")>>,
            <<OptStrOr(options.sort_order, "desc")>>,
            <<ToString(OptNumOr(options.min_volume, 0))>>,
            <<ToString(OptNumOr(options.min_liquidity, 0))>> >>)

\* JSON.stringify(options): the defined properties, in the order the
\* controller writes them
JsonOptions(options) ==
    LET Num(name, o) == IF IsSome(o) THEN <<name, ToString(Val(o))>> ELSE <<>>
        Str(name, o) == IF IsSome(o) THEN <<name, Val(o)>> ELSE <<>>
    IN  <<"{">> \o Num("limit", options.limit)
        \o (IF IsSome(options.cursor) THEN <<"cursor">> \o Val(options.cursor) ELSE <<>>)
        \o Str("sort_by", options.sort_by) \o Str("sort_order", options.sort_order)
        \o Num("min_volume", options.min_volume)
        \o Num("min_liquidity", options.min_liquidity) \o <<"}">>

\* `${this.CACHE_KEY_PREFIX}search:${query}:${JSON.stringify(options)}`
SearchCacheKey(query, options) ==
    CACHE_KEY_PREFIX \o <<"search", ":", query, ":">> \o JsonOptions(options)

\* `${this.CACHE_KEY_PREFIX}address:${address}`
AddressCacheKey(address) == CACHE_KEY_PREFIX \o <<"address", ":", address>>

(***************************************************************************)
(* CacheService over the Redis store                                       *)
(***************************************************************************)
\* config.cache.prefix and CacheService.getKey
GetKey(key) == <<"meme-coin", ":">> \o key

\* JSON.stringify / JSON.parse: an undefined property is dropped, which is
\* how Absent reads; every other value of the model survives unchanged
JsonStringify(value) == <<"json", value>>
JsonParse(text) == text[2]
\* the decimal text Redis keeps for a counter; JSON.parse reads it as the number
IntegerText(n) == <<"int", n>>
\* a text JSON.parse does not throw on
JsonValid(text) == text[1] \in {"json", "int"}
\* a stored text that is no JSON (written by another client of the store)
MalformedText == <<"raw">>

\* CacheService.get; err: the Redis command fails. A failing command and a
\* throwing JSON.parse both end in the catch block, which returns null
CacheGet(key, err) ==
    IF err \/ GetKey(key) \notin DOMAIN cache THEN Absent
    ELSE IF ~JsonValid(cache[GetKey(key)].val) THEN Absent
    ELSE Some(JsonParse(cache[GetKey(key)].val))

\* CacheService.set: the store after redis.setex, unchanged when the command fails
CacheSet(key, value, ttl, err) ==
    IF err THEN cache
    ELSE [k \in DOMAIN cache \cup {GetKey(key)} |->
            IF k = GetKey(key) THEN [val |-> JsonStringify(value), exp |-> now + ttl]
            ELSE cache[k]]

\* a delete that removes nothing
CacheDeleteNothing(key, err) == cache
\* CacheService.delete: the store after redis.del
CacheDelete(key, err) ==
    IF err THEN cache ELSE [k \in DOMAIN cache \ {GetKey(key)} |-> cache[k]]

\* a pattern that matches every key
GlobAll(pattern, key) == TRUE
\* Redis glob matching for the patterns the program uses: literal text with
\* one trailing "*"
Glob(pattern, key) ==
    IF pattern # <<>> /\ pattern[Len(pattern)] = "*"
    THEN /\ Len(key) >= Len(pattern) - 1
         /\ \A i \in 1..(Len(pattern) - 1) : key[i] = pattern[i]
    ELSE key = pattern

\* CacheService.deletePattern, first await: redis.keys(getKey(pattern))
RedisKeys(pattern) == {k \in DOMAIN cache : Glob(GetKey(pattern), k)}

\* CacheService.deletePattern, second await: redis.del(...keys), skipped
\* when no key matched
RedisDel(keys, err) ==
    IF err \/ keys = {} THEN cache ELSE [k \in DOMAIN cache \ keys |-> cache[k]]

\* CacheService.exists
CacheExists(key, err) == ~err /\ GetKey(key) \in DOMAIN cache

\* CacheService.mget: one throwing JSON.parse sends the whole call to the
\* catch block, which answers null for every key
CacheMget(keys, err) ==
    IF \/ err
       \/ \E i \in DOMAIN keys : /\ GetKey(keys[i]) \in DOMAIN cache
                                  /\ ~JsonValid(cache[GetKey(keys[i])].val)
    THEN [i \in DOMAIN keys |-> Absent]
    ELSE [i \in DOMAIN keys |-> CacheGet(keys[i], FALSE)]

\* config.cache.ttl as CacheService.defaultTTL
defaultTTL == cacheTtl

RECURSIVE PipelineSetex(_, _)
\* CacheService.mset: the queued setex commands applied in order
PipelineSetex(store, items) ==
    IF items = <<>> THEN store
    ELSE LET item == Head(items)
             ttl == IF IsSome(item.ttl) /\ Val(item.ttl) # 0 THEN Val(item.ttl)
                    ELSE defaultTTL
             next == [k \in DOMAIN store \cup {GetKey(item.key)} |->
                         IF k = GetKey(item.key)
                         THEN [val |-> JsonStringify(item.value), exp |-> now + ttl]
                         ELSE store[k]]
         IN  PipelineSetex(next, Tail(items))

CacheMset(items, err) == IF err THEN cache ELSE PipelineSetex(cache, items)

\* redis.incr fails on a text that is no integer
IncrRejected(key) ==
    GetKey(key) \in DOMAIN cache /\ cache[GetKey(key)].val[1] # "int"

\* the counter after redis.incr
IncrValue(key) ==
    IF GetKey(key) \in DOMAIN cache THEN cache[GetKey(key)].val[2] + 1 ELSE 1

\* CacheService.increment: redis.incr, then redis.expire when the counter
\* was created and a ttl was given; either command may fail, and the catch
\* block answers 0. The result is the pair of the store and the answer.
CacheIncrement(key, ttl, errIncr, errExpire) ==
    IF errIncr \/ IncrRejected(key) THEN [store |-> cache, value |-> 0]
    ELSE LET value == IncrValue(key)
             incremented ==
                 [k \in DOMAIN cache \cup {GetKey(key)} |->
                     IF k = GetKey(key)
                     THEN [val |-> IntegerText(value),
                           exp |-> IF k \in DOMAIN cache THEN cache[k].exp ELSE NoExpiry]
                     ELSE cache[k]]
             expires == value = 1 /\ IsSome(ttl) /\ Val(ttl) # 0
         IN  IF ~expires THEN [store |-> incremented, value |-> value]
             ELSE IF errExpire THEN [store |-> incremented, value |-> 0]
             ELSE [store |-> [incremented EXCEPT ![GetKey(key)].exp = now + Val(ttl)],
                   value |-> value]

(***************************************************************************)
(* AggregationService: aggregateTokens, searchTokens, getTokenByAddress.   *)
(* A call is a sequence of steps, one per await.                           *)
(***************************************************************************)
Queries == {"TKA"}
AddressArgs == {"addr2", "addr9"}
SearchOptions == {[NoOptions EXCEPT !.limit = Some(1)]}

IdleCall == [pc |-> "idle", op |-> "none", opts |-> NoOptions, arg |-> "", key |-> <<>>,
             dex |-> "none", jup |-> "none", hit |-> FALSE, storeErr |-> FALSE,
             res |-> Absent, prev |-> Absent]
\* prev (history): options and result of the caller's previous call, when that
\* was an aggregateTokens call that returned

AggInit ==
    /\ cache = << >>
    /\ upstream \in Scenarios
    /\ call = [c \in Callers |-> IdleCall]
    /\ ncalls = 0

CacheHitNever(cached) == FALSE
\* if (cached)
CacheHit(cached) == IsSome(cached)

\* what an adapter call settles to: Absent is a rejection
Settled(ok, tokens) == IF ok THEN Some(tokens) ELSE Absent
SettledName(r) == IF IsSome(r) THEN "fulfilled" ELSE "rejected"

\* Promise.all in place of Promise.allSettled: one rejection rejects the call
CombineFailFast(dexTokens, jupiterTokens) ==
    [raised |-> ~IsSome(dexTokens) \/ ~IsSome(jupiterTokens),
     tokens |-> (IF IsSome(dexTokens) THEN Val(dexTokens) ELSE <<>>)
                \o (IF IsSome(jupiterTokens) THEN Val(jupiterTokens) ELSE <<>>)]
\* Promise.allSettled and the two status checks that build allTokens
Combine(dexTokens, jupiterTokens) ==
    [raised |-> FALSE,
     tokens |-> (IF IsSome(dexTokens) THEN Val(dexTokens) ELSE <<>>)
                \o (IF IsSome(jupiterTokens) THEN Val(jupiterTokens) ELSE <<>>)]

\* what the upstream search endpoints answer for a query
SearchHits(tokens, query) ==
    LET Match(t) == t.token_ticker = query IN SelectSeq(tokens, Match)

\* what the upstream /tokens/{address} endpoint answers
AddressHits(tokens, address) ==
    LET Match(t) == t.token_address = address IN SelectSeq(tokens, Match)

\* the start of a call up to the return on a cache hit or the await of the adapters
Begin(c, op, arg, opts, key, err) ==
    /\ call[c].pc \in {"idle", "done", "raised"}
    /\ ncalls < MaxCalls
    /\ ncalls' = ncalls + 1
    /\ LET cached == CacheGet(key, err)
           prev == IF call[c].pc = "done" /\ call[c].op = "aggregate"
                   THEN Some([opts |-> call[c].opts, res |-> Val(call[c].res)])
                   ELSE Absent
           base == [IdleCall EXCEPT !.op = op, !.arg = arg, !.opts = opts, !.key = key,
                                    !.storeErr = err, !.prev = prev]
       IN  IF CacheHit(cached)
           THEN call' = [call EXCEPT ![c] =
                           [base EXCEPT !.pc = "done", !.hit = TRUE, !.res = cached]]
           ELSE call' = [call EXCEPT ![c] = [base EXCEPT !.pc = "fetch"]]
    /\ UNCHANGED <<cache, upstream, now, limVars, retryVars, mgrVars, inbound, adapter, pureVars, cacheOpVars, sockVars>>

\* aggregateTokens up to its first return or await
AggregateStart(c, opts, err) ==
    /\ opts \in AggOptions
    /\ Begin(c, "aggregate", "", opts, GenerateCacheKey(opts), err)

\* searchTokens up to its first return or await
SearchStart(c, query, opts, err) ==
    /\ query \in Queries
    /\ Begin(c, "search", query, opts, SearchCacheKey(query, opts), err)

\* getTokenByAddress up to its first return or await
AddressStart(c, address, err) ==
    /\ address \in AddressArgs
    /\ Begin(c, "address", address, NoOptions, AddressCacheKey(address), err)

\* the adapters have settled: combine, merge, filter, sort, paginate
Fetched(c, dexTokens, jupiterTokens) ==
    LET out == Combine(dexTokens, jupiterTokens)
    IN  /\ call' = [call EXCEPT ![c] =
                     [@ EXCEPT !.pc = IF out.raised THEN "raised" ELSE "set",
                               !.dex = SettledName(dexTokens),
                               !.jup = SettledName(jupiterTokens),
                               !.res = IF out.raised THEN Absent
                                       ELSE Some(Pipeline(out.tokens, call[c].opts, now))]]
        /\ UNCHANGED <<cache, upstream, ncalls, now, limVars, retryVars, mgrVars, inbound, adapter, pureVars, cacheOpVars, sockVars>>

\* aggregateTokens from Promise.allSettled to the await of cacheService.set
AggregateFetched(c, dexOk, jupOk) ==
    /\ call[c].pc = "fetch"
    /\ call[c].op = "aggregate"
    /\ Fetched(c, Settled(dexOk, upstream.dex), Settled(jupOk, upstream.jup))

\* searchTokens from Promise.allSettled to the await of cacheService.set
SearchFetched(c, dexOk, jupOk) ==
    /\ call[c].pc = "fetch"
    /\ call[c].op = "search"
    /\ Fetched(c, Settled(dexOk, SearchHits(upstream.dex, call[c].arg)),
                  Settled(jupOk, SearchHits(upstream.jup, call[c].arg)))

\* getTokenByAddress from the adapter's answer on: a rejection is not caught
AddressFetched(c, ok) ==
    /\ call[c].pc = "fetch"
    /\ call[c].op = "address"
    /\ LET tokens == AddressHits(upstream.dex, call[c].arg)
           token == IF tokens # <<>> THEN Some(tokens[1]) ELSE Absent
       IN  call' = [call EXCEPT ![c] =
                     [@ EXCEPT !.pc = IF ~ok THEN "raised"
                                      ELSE IF IsSome(token) THEN "set" ELSE "done",
                               !.dex = IF ok THEN "fulfilled" ELSE "rejected",
                               !.res = IF ok THEN token ELSE Absent]]
    /\ UNCHANGED <<cache, upstream, ncalls, now, limVars, retryVars, mgrVars, inbound, adapter, pureVars, cacheOpVars, sockVars>>

\* a write that stores a result only when both adapters fulfilled
CacheWriteCompleteOnly(c, err) ==
    /\ call[c].pc = "set"
    /\ cache' = IF call[c].dex = "rejected" \/ call[c].jup = "rejected" THEN cache
                ELSE CacheSet(call[c].key, Val(call[c].res), cacheTtl, err)
    /\ call' = [call EXCEPT ![c].pc = "done"]
    /\ UNCHANGED <<upstream, ncalls, now, limVars, retryVars, mgrVars, inbound, adapter, pureVars, cacheOpVars, sockVars>>
\* await cacheService.set(cacheKey, result, config.cache.ttl) and the return
CacheWrite(c, err) ==
    /\ call[c].pc = "set"
    /\ cache' = CacheSet(call[c].key, Val(call[c].res), cacheTtl, err)
    /\ call' = [call EXCEPT ![c].pc = "done"]
    /\ UNCHANGED <<upstream, ncalls, now, limVars, retryVars, mgrVars, inbound, adapter, pureVars, cacheOpVars, sockVars>>

(***************************************************************************)
(* Direct calls of the pure methods of AggregationService (as the unit     *)
(* tests make them): pureIn holds the arguments, pureOut the value returned.      *)
(***************************************************************************)
\* longest token array passed to mergeTokens, applyFilters and applySort
MaxTokens == 3

\* a DexScreener record of addr1 whose pair carried no name, symbol or dexId
\* (transformPair fills in the placeholders)
TokU == [TokA EXCEPT !.token_name = "Unknown", !.token_ticker = "UNKNOWN",
                     !.protocol = "Unknown", !.price_sol = 0,
                     !.volume_sol = 700, !.last_updated = 3]
\* a record of addr2 with an empty name
TokE == [TokB EXCEPT !.token_name = "", !.price_1hr_change = 0,
                     !.dex_id = Some("orca"), !.market_cap_sol = 3000,
                     !.liquidity_sol = 100]

PureTokens == {TokA, TokB, JupA, TokU, TokE}
TokenSeqs == UNION {[1..n -> PureTokens] : n \in 0..MaxTokens}

\* a sorted collection of n records, told apart by address and volume
NumberedTokens(n) ==
    [i \in 1..n |-> [TokB EXCEPT !.token_address = ToString(i), !.volume_sol = 1000 - i]]
CollectionSizes == {0, 2, 3, 25, 120}

FilterOptions ==
    { [NoOptions EXCEPT !.min_volume = v, !.min_liquidity = l] :
        v \in {Absent, Some(0), Some(500), Some(750), Some(1001)},
        l \in {Absent, Some(0), Some(200), Some(300)} }
SortOptions ==
    { [NoOptions EXCEPT !.sort_by = b, !.sort_order = d] :
        b \in {Absent, Some("volume"), Some("market_cap"), Some("liquidity"),
               Some("price_change"), Some("newest")},
        d \in {Absent, Some("asc"), Some("desc")} }
PageOptions ==
    { [NoOptions EXCEPT !.limit = l, !.cursor = cu] :
        l \in {Absent, Some(0), Some(1), Some(2), Some(100), Some(150), Some(-1), Some(-5)},
        cu \in {Absent, Some(<<>>), Some(GarbageCursor)}
               \cup {Some(EncodeCursor(o)) : o \in {0, 1, 2, 24, 200, -1}} }
KeyOptions ==
    { [NoOptions EXCEPT !.sort_by = b, !.sort_order = d,
                        !.min_volume = v, !.min_liquidity = l] :
        b \in {Absent, Some("volume"), Some("liquidity")},
        d \in {Absent, Some("asc"), Some("desc")},
        v \in {Absent, Some(0), Some(750)},
        l \in {Absent, Some(0), Some(300)} }

PureInputs ==
    { [fn |-> "mergeSingleToken", token1 |-> a, token2 |-> b] :
        a \in PureTokens, b \in PureTokens }
    \cup { [fn |-> "mergeTokens", tokens |-> ts] : ts \in TokenSeqs }
    \cup { [fn |-> "applyFilters", tokens |-> ts, options |-> o] :
            ts \in TokenSeqs, o \in FilterOptions }
    \cup { [fn |-> "applySort", tokens |-> ts, options |-> o] :
            ts \in TokenSeqs, o \in SortOptions }
    \cup { [fn |-> "applyPagination", tokens |-> NumberedTokens(n), options |-> o] :
            n \in CollectionSizes, o \in PageOptions }
    \cup { [fn |-> "generateCacheKey", options |-> o] : o \in KeyOptions }

\* no direct call is made
PureIdle == pureIn = [fn |-> "none"] /\ pureOut = Absent

\* a direct call is about to be made
PureInit == pureIn \in PureInputs /\ pureOut = Absent

Returns(fn, value) ==
    /\ pureIn.fn = fn
    /\ pureOut = Absent
    /\ pureOut' = Some(value)
    /\ UNCHANGED <<pureIn, now, limVars, retryVars, mgrVars, inbound, adapter, aggVars, cacheOpVars, sockVars>>

CallMergeSingleToken ==
    /\ pureIn.fn = "mergeSingleToken"
    /\ Returns("mergeSingleToken", MergeSingleToken(pureIn.token1, pureIn.token2))

CallMergeTokens ==
    /\ pureIn.fn = "mergeTokens"
    /\ Returns("mergeTokens", MergeTokens(pureIn.tokens))

CallApplyFilters ==
    /\ pureIn.fn = "applyFilters"
    /\ Returns("applyFilters", ApplyFilters(pureIn.tokens, pureIn.options))

\* applySort sorts a copy ([...tokens]): the caller's array stays as it was
CallApplySort ==
    /\ pureIn.fn = "applySort"
    /\ Returns("applySort", ApplySort(pureIn.tokens, pureIn.options))

\* the result and, for reference, the local const limit
CallApplyPagination ==
    /\ pureIn.fn = "applyPagination"
    /\ Returns("applyPagination",
               [page |-> ApplyPagination(pureIn.tokens, pureIn.options, now),
                limit |-> EffectiveLimit(pureIn.options)])

CallGenerateCacheKey ==
    /\ pureIn.fn = "generateCacheKey"
    /\ Returns("generateCacheKey", GenerateCacheKey(pureIn.options))

(***************************************************************************)
(* CacheService called directly, as the tests, the inbound rate limiter    *)
(* and AggregationService.invalidateCache do. One action per await.        *)
(***************************************************************************)
MaxCacheOps == 3

AggKey == GenerateCacheKey(NoOptions)
AddrKey == AddressCacheKey("addr2")
\* rateLimiter middleware: `rate-limit:${identifier}`
RateKey == <<"rate-limit", ":", "ip1">>
SearchKey == SearchCacheKey("TKA", NoOptions)
AllKeys == {AddrKey, RateKey}
\* AggregationService.invalidateCache: `${this.CACHE_KEY_PREFIX}*`
NamespacePattern == CACHE_KEY_PREFIX \o <<"*">>
Patterns == {NamespacePattern}
TtlArgs == {1, defaultTTL}
MgetArgs == {<<AddrKey, RateKey>>}
\* the three kinds of entry AggregationService writes
MsetArgs ==
    {<<[key |-> AggKey, value |-> Pipeline(<<TokA, TokB>>, NoOptions, 0), ttl |-> Absent],
       [key |-> SearchKey, value |-> Pipeline(<<TokA>>, NoOptions, 0), ttl |-> Some(0)],
       [key |-> AddrKey, value |-> TokA, ttl |-> Some(1)]>>}

IdleOp == [op |-> "none", pc |-> "done"]
CacheOpInit == cacheOp = IdleOp /\ ncops = 0

\* the methods whose whole body sits in try/catch
Caught == {"get", "set", "delete", "deletePattern", "exists", "mget", "mset", "increment"}

\* a direct call of method op is made; it ends at pc with the fields of rec
\* recorded
Operation(op, pc, failed, rec) ==
    /\ cacheOp.pc = "done"
    /\ ncops < MaxCacheOps
    /\ ncops' = ncops + 1
    /\ cacheOp' = [op |-> op, pc |-> IF failed /\ op \notin Caught THEN "raised" ELSE pc,
                   failed |-> failed] @@ rec
    /\ UNCHANGED <<now, limVars, retryVars, mgrVars, inbound, adapter, upstream, call, ncalls, pureVars, sockVars>>

OpGet(key, err) ==
    /\ key \in AllKeys
    /\ Operation("get", "done",
                 err \/ (GetKey(key) \in DOMAIN cache /\ ~JsonValid(cache[GetKey(key)].val)),
                 [key |-> key, result |-> CacheGet(key, err)])
    /\ UNCHANGED cache

OpSet(key, value, ttl, err) ==
    /\ key = AddrKey
    /\ Operation("set", "done", err, [key |-> key, value |-> value, ttl |-> ttl])
    /\ cache' = CacheSet(key, value, ttl, err)

OpDelete(key, err) ==
    /\ key \in AllKeys
    /\ Operation("delete", "done", err, [key |-> key])
    /\ cache' = CacheDelete(key, err)

\* deletePattern up to its second await; a failing redis.keys ends the call
OpDeletePattern(pattern, err) ==
    /\ pattern \in Patterns
    /\ Operation("deletePattern", IF err \/ RedisKeys(pattern) = {} THEN "done" ELSE "del", err,
                 [pattern |-> pattern, keys |-> IF err THEN {} ELSE RedisKeys(pattern),
                  present |-> DOMAIN cache])
    /\ UNCHANGED cache

\* deletePattern from redis.del to its end
OpDeletePatternDel(err) ==
    /\ cacheOp.pc = "del"
    /\ cacheOp' = [cacheOp EXCEPT !.pc = "done", !.failed = err]
    /\ cache' = RedisDel(cacheOp.keys, err)
    /\ UNCHANGED <<now, limVars, retryVars, mgrVars, inbound, adapter, upstream, call, ncalls, pureVars, ncops, sockVars>>

OpExists(key, err) ==
    /\ key \in AllKeys
    /\ Operation("exists", "done", err, [key |-> key, result |-> CacheExists(key, err)])
    /\ UNCHANGED cache

OpMget(keys, err) ==
    /\ keys \in MgetArgs
    /\ Operation("mget", "done",
                 err \/ \E i \in DOMAIN keys : /\ GetKey(keys[i]) \in DOMAIN cache
                                                /\ ~JsonValid(cache[GetKey(keys[i])].val),
                 [keys |-> keys, result |-> CacheMget(keys, err)])
    /\ UNCHANGED cache

OpMset(items, err) ==
    /\ items \in MsetArgs
    /\ Operation("mset", "done", err, [items |-> items])
    /\ cache' = CacheMset(items, err)

OpIncrement(key, ttl, errIncr, errExpire) ==
    /\ key = RateKey
    /\ Operation("increment", "done",
                 \/ errIncr
                 \/ IncrRejected(key)
                 \/ errExpire /\ IncrValue(key) = 1 /\ IsSome(ttl) /\ Val(ttl) # 0,
                 [key |-> key, ttl |-> ttl,
                  result |-> CacheIncrement(key, ttl, errIncr, errExpire).value])
    /\ cache' = CacheIncrement(key, ttl, errIncr, errExpire).store

\* another client of the store leaves a text that is no JSON under a key
ForeignWrite(key) ==
    /\ key \in AllKeys
    /\ GetKey(key) \notin DOMAIN cache
    /\ cache' = [k \in DOMAIN cache \cup {GetKey(key)} |->
                    IF k = GetKey(key) THEN [val |-> MalformedText, exp |-> NoExpiry]
                    ELSE cache[k]]
    /\ UNCHANGED <<now, limVars, retryVars, mgrVars, inbound, adapter, upstream, call, ncalls, pureVars, cacheOpVars,
                   sockVars>>

(***************************************************************************)
(* SocketManager: the update loop. setInterval starts checkForUpdates      *)
(* whether or not an earlier run has finished; a run is a sequence of      *)
(* steps, one per await. Prices of the tokens served here are in           *)
(* thousandths of a SOL.                                                   *)
(***************************************************************************)
MaxTicks == 2
TickIds == {"k1", "k2"}

\* { limit: 50, sort_by: 'volume', sort_order: 'desc' }
TickOptions == [NoOptions EXCEPT !.limit = Some(50), !.sort_by = Some("volume"),
                                 !.sort_order = Some("desc")]
\* GET /api/tokens?limit=1: the same cache key as TickOptions, as for
\* sendInitialData's { limit: 30, sort_by: 'volume', sort_order: 'desc' }
HttpOptions == [NoOptions EXCEPT !.limit = Some(1)]
OtherOptions == {HttpOptions}

Quote(token, price, volume) == [token EXCEPT !.price_sol = price, !.volume_sol = volume]
\* what DexScreener serves for addr1 from one fetch to the next
Addr1Quotes == {Quote(TokA, 1000, 100), Quote(TokA, 1020, 151), Quote(TokA, 1010, 150),
                Quote(TokA, 1005, 40)}
SocketScenarios ==
    { [dex |-> <<q, Quote(TokB, 1000, 1000)>>, jup |-> <<JupC>>] : q \in Addr1Quotes }

\* fetches in which addr1 has no price and no volume yet, and then has
ZeroQuotes == {Quote(TokA, 0, 0), Quote(TokA, 5, 7), Quote(TokA, 1000, 100)}
ZeroScenarios ==
    { [dex |-> <<q, Quote(TokB, 1000, 1000)>>, jup |-> <<JupC>>] : q \in ZeroQuotes }

Abs(x) == IF x < 0 THEN 0 - x ELSE x

RECURSIVE MapEntries(_, _)
\* new Map(pairs): the entries in insertion order; a later pair with a key
\* already present replaces the value and keeps the position
MapEntries(entries, tokens) ==
    IF tokens = <<>> THEN entries
    ELSE LET t == Head(tokens)
             has == \E i \in DOMAIN entries : entries[i].token_address = t.token_address
         IN  MapEntries(IF has
                        THEN [i \in DOMAIN entries |->
                                IF entries[i].token_address = t.token_address THEN t
                                ELSE entries[i]]
                        ELSE Append(entries, t),
                        Tail(tokens))

\* new Map(data.tokens.map(t => [t.token_address, t]))
CurrentTokens(tokens) == MapEntries(<<>>, tokens)

\* Map.get
MapGet(map, address) ==
    LET Match(t) == t.token_address = address
        hits == SelectSeq(map, Match)
    IN  IF hits = <<>> THEN Absent ELSE Some(hits[1])

\* a threshold that a move of exactly 1% meets
PriceMovedInclusive(currentToken, previousToken) ==
    LET d == currentToken.price_sol - previousToken.price_sol
        p == previousToken.price_sol
    IN  IF p = 0 THEN d # 0 ELSE Abs(d) * 100 >= Abs(p)

\* a comparison that skips a zero divisor
PriceMovedSkipsZero(currentToken, previousToken) ==
    LET d == currentToken.price_sol - previousToken.price_sol
        p == previousToken.price_sol
    IN  IF p = 0 THEN FALSE ELSE Abs(d) * 100 > Abs(p)

\* Math.abs(((cur - prev) / prev) * 100) > 1 in IEEE arithmetic: a zero
\* divisor gives Infinity for a non-zero difference and NaN for 0/0
PriceMoved(currentToken, previousToken) ==
    LET d == currentToken.price_sol - previousToken.price_sol
        p == previousToken.price_sol
    IN  IF p = 0 THEN d # 0 ELSE Abs(d) * 100 > Abs(p)

\* a threshold on the size of the change, whatever its direction
VolumeSpikedUnsigned(currentToken, previousToken) ==
    LET d == currentToken.volume_sol - previousToken.volume_sol
        p == previousToken.volume_sol
    IN  IF p = 0 THEN d # 0 ELSE Abs(d) * 100 > 50 * Abs(p)

\* ((cur - prev) / prev) * 100 > 50 in IEEE arithmetic
VolumeSpiked(currentToken, previousToken) ==
    LET d == currentToken.volume_sol - previousToken.volume_sol
        p == previousToken.volume_sol
    IN  IF p = 0 THEN d > 0
        ELSE IF p > 0 THEN d * 100 > 50 * p
        ELSE d * 100 < 50 * p

\* the entries of the loop whose address previousTokens holds: if (previousToken)
Known(previous, current) ==
    LET Has(t) == IsSome(MapGet(previous, t.token_address)) IN SelectSeq(current, Has)

\* updates after the loop
Updates(previous, current) ==
    LET Moved(t) == PriceMoved(t, Val(MapGet(previous, t.token_address)))
    IN  SelectSeq(Known(previous, current), Moved)

\* volumeSpikes after the loop
VolumeSpikes(previous, current) ==
    LET Spiked(t) == VolumeSpiked(t, Val(MapGet(previous, t.token_address)))
    IN  SelectSeq(Known(previous, current), Spiked)

\* an emitted event: its name, the room it goes to (<<>> for every client),
\* the type of the payload and the tokens in its data
Event(name, room, type, tokens) ==
    [event |-> name, room |-> room, type |-> type, data |-> tokens]

\* token updates only for the tokens whose price moved
TokenUpdatesOnChange(previous, current) ==
    LET known == Updates(previous, current)
    IN  [i \in DOMAIN known |->
            Event("token_update", <<"token", ":", known[i].token_address>>,
                  "price_update", <<known[i]>>)]

\* this.io.to(`token:${address}`).emit('token_update', ...) in the loop
TokenUpdates(previous, current) ==
    LET known == Known(previous, current)
    IN  [i \in DOMAIN known |->
            Event("token_update", <<"token", ":", known[i].token_address>>,
                  "price_update", <<known[i]>>)]

\* a broadcast of every batch, empty or not
BroadcastAlways(name, type, batch) == <<Event(name, <<>>, type, batch)>>

\* if (batch.length > 0) this.io.emit(name, ...)
Broadcast(name, type, batch) ==
    IF Len(batch) > 0 THEN <<Event(name, <<>>, type, batch)>> ELSE <<>>

\* every event of one run, in the order of emission
Events(previous, current) ==
    TokenUpdates(previous, current)
    \o Broadcast("price_updates", "price_update", Updates(previous, current))
    \o Broadcast("volume_spikes", "volume_spike", VolumeSpikes(previous, current))

\* a replacement that carries over the entries the new snapshot lacks
NextPreviousMerged(previous, current) ==
    LET Gone(t) == ~IsSome(MapGet(current, t.token_address))
    IN  current \o SelectSeq(previous, Gone)

\* this.previousTokens = currentTokens
NextPrevious(previous, current) == current

IdleTick == [pc |-> "idle", keys |-> {}, res |-> Absent]
NoRun == [ran |-> FALSE]

SocketInit ==
    /\ previousTokens = <<>>
    /\ tick = [k \in TickIds |-> IdleTick]
    /\ emitted = NoRun
    /\ nticks = 0

\* an armed interval timer fires: checkForUpdates up to the answer of redis.keys inside
\* invalidateCache
TickStart(k, err) ==
    /\ tick[k].pc = "idle"
    /\ timers # {}
    /\ nticks < MaxTicks
    /\ nticks' = nticks + 1
    /\ LET keys == IF err THEN {} ELSE RedisKeys(NamespacePattern)
       IN  tick' = [tick EXCEPT ![k] = [IdleTick EXCEPT !.pc = IF keys = {} THEN "get" ELSE "del",
                                                        !.keys = keys]]
    /\ UNCHANGED <<now, limVars, retryVars, mgrVars, inbound, adapter, aggVars, pureVars, cacheOpVars,
                   previousTokens, emitted>>

\* redis.del inside invalidateCache
TickInvalidateDel(k, err) ==
    /\ tick[k].pc = "del"
    /\ cache' = RedisDel(tick[k].keys, err)
    /\ tick' = [tick EXCEPT ![k].pc = "get"]
    /\ UNCHANGED <<now, limVars, retryVars, mgrVars, inbound, adapter, upstream, call, ncalls, pureVars, cacheOpVars,
                   previousTokens, emitted, nticks>>

\* the rest of checkForUpdates once aggregateTokens has answered with data:
\* the loop, the broadcasts, the replacement of previousTokens
Diffed(k, data, hit) ==
    LET currentTokens == CurrentTokens(data.tokens)
    IN  /\ emitted' = [ran |-> TRUE, hit |-> hit, tokens |-> data.tokens,
                       before |-> previousTokens,
                       events |-> Events(previousTokens, currentTokens)]
        /\ previousTokens' = NextPrevious(previousTokens, currentTokens)
        /\ tick' = [tick EXCEPT ![k] = IdleTick]

\* aggregateTokens inside checkForUpdates up to its return on a cache hit
\* (and then the rest of the run) or the await of the adapters
TickAggregate(k, err) ==
    /\ tick[k].pc = "get"
    /\ LET cached == CacheGet(GenerateCacheKey(TickOptions), err)
       IN  IF CacheHit(cached) THEN Diffed(k, Val(cached), TRUE)
           ELSE /\ tick' = [tick EXCEPT ![k].pc = "fetch"]
                /\ UNCHANGED <<previousTokens, emitted>>
    /\ UNCHANGED <<now, limVars, retryVars, mgrVars, inbound, adapter, aggVars, pureVars, cacheOpVars, nticks>>

\* the adapters of the run's aggregateTokens have settled; served is what
\* the upstream services hold at that moment
TickFetched(k, served, dexOk, jupOk) ==
    /\ tick[k].pc = "fetch"
    /\ served \in SocketScenarios \cup ZeroScenarios
    /\ upstream' = served
    /\ LET fetched == Combine(Settled(dexOk, served.dex), Settled(jupOk, served.jup))
       IN  tick' = [tick EXCEPT ![k].pc = "set",
                                ![k].res = Some(Pipeline(fetched.tokens, TickOptions, now))]
    /\ UNCHANGED <<now, limVars, retryVars, mgrVars, inbound, adapter, cache, call, ncalls, pureVars, cacheOpVars,
                   previousTokens, emitted, nticks>>

\* cacheService.set inside aggregateTokens, its return, and the rest of the run
TickCacheWrite(k, err) ==
    /\ tick[k].pc = "set"
    /\ cache' = CacheSet(GenerateCacheKey(TickOptions), Val(tick[k].res), cacheTtl, err)
    /\ Diffed(k, Val(tick[k].res), FALSE)
    /\ UNCHANGED <<now, limVars, retryVars, mgrVars, inbound, adapter, upstream, call, ncalls, pureVars, cacheOpVars,
                   nticks>>

\* aggregateTokens called for a client: sendInitialData on connect, or the
\* HTTP token list
OtherAggregate(c, opts) ==
    /\ opts \in OtherOptions
    /\ Begin(c, "aggregate", "", opts, GenerateCacheKey(opts), FALSE)

(***************************************************************************)
(* SocketManager: the update timer and the registry of client filters      *)
(***************************************************************************)
\* the handle setInterval returned to the constructor's startUpdateLoop
TimerHandle == "timer1"
SocketIds == {"s1", "s2"}
\* the filters the clients send with set_filters
FilterArgs == {NoOptions, HttpOptions}
\* most calls of stop() in a behaviour
MaxStops == 2

NewSocket == [state |-> "unused", filtered |-> FALSE]
\* filtered (history): the socket has sent set_filters

\* the state the constructor leaves: handlers set up, the update loop started
ManagerInit ==
    /\ updateInterval = Some(TimerHandle)
    /\ timers = {TimerHandle}
    /\ nstops = 0
    /\ clientFilters = << >>
    /\ sockets = [s \in SocketIds |-> NewSocket]

\* a stop() that forgets the handle and leaves its timer armed
StopKeepsTimer ==
    /\ nstops < MaxStops
    /\ nstops' = nstops + 1
    /\ updateInterval' = Absent
    /\ UNCHANGED <<timers, now, limVars, retryVars, aggVars, pureVars, cacheOpVars, sockVars,
                   clientFilters, sockets, inbound, adapter>>
\* stop()
Stop ==
    /\ nstops < MaxStops
    /\ nstops' = nstops + 1
    /\ IF IsSome(updateInterval)
       THEN /\ timers' = timers \ {Val(updateInterval)}
            /\ updateInterval' = Absent
       ELSE UNCHANGED <<timers, updateInterval>>
    /\ UNCHANGED <<now, limVars, retryVars, aggVars, pureVars, cacheOpVars, sockVars,
                   clientFilters, sockets, inbound, adapter>>

\* Map.set and Map.delete on clientFilters
FiltersSet(filters, id, options) ==
    [x \in (DOMAIN filters) \cup {id} |-> IF x = id THEN options ELSE filters[x]]
FiltersDeleteNothing(filters, id) == filters
FiltersDelete(filters, id) == [x \in (DOMAIN filters) \ {id} |-> filters[x]]

\* a client connects: socket.io creates the socket and runs the 'connection'
\* handler, which registers the socket's handlers and calls sendInitialData
\* (whose aggregateTokens call runs on as OtherAggregate)
Connect(s) ==
    /\ sockets[s].state = "unused"
    /\ sockets' = [sockets EXCEPT ![s].state = "connected"]
    /\ UNCHANGED <<now, limVars, retryVars, aggVars, pureVars, cacheOpVars, sockVars,
                   updateInterval, timers, nstops, clientFilters, inbound, adapter>>

\* the 'set_filters' handler of a connected socket, up to the await inside
\* sendFilteredData
SetFilters(s, filters) ==
    /\ sockets[s].state = "connected"
    /\ clientFilters' = FiltersSet(clientFilters, s, filters)
    /\ sockets' = [sockets EXCEPT ![s].filtered = TRUE]
    /\ UNCHANGED <<now, limVars, retryVars, aggVars, pureVars, cacheOpVars, sockVars,
                   updateInterval, timers, nstops, inbound, adapter>>

\* the 'disconnect' handler: socket.io dispatches no event of the socket after it
Disconnect(s) ==
    /\ sockets[s].state = "connected"
    /\ clientFilters' = FiltersDelete(clientFilters, s)
    /\ sockets' = [sockets EXCEPT ![s].state = "closed"]
    /\ UNCHANGED <<now, limVars, retryVars, aggVars, pureVars, cacheOpVars, sockVars,
                   updateInterval, timers, nstops, inbound, adapter>>

(***************************************************************************)
(* The rateLimiter middleware and the upstream adapters                    *)
(***************************************************************************)
\* config.rateLimit.maxRequests, and Math.ceil(config.rateLimit.windowMs / 1000)
rateLimitMaxRequests == 1
rateLimitWindow == 2
\* most requests of the client in a behaviour
MaxInbound == 4

NoRequest == [status |-> "none", count |-> 0, at |-> 0, gap |-> 0, n |-> 0]
\* status: "next" (passed on) or "429"; count: what increment answered;
\* at: when the request came; gap (history): the time since the client's
\* previous request; n (history): the number of requests so far
InboundInit == inbound = NoRequest

\* the rateLimiter middleware for one request of the client ip1; errIncr and
\* errExpire: redis.incr, redis.expire fails
RateLimiterRequest(errIncr, errExpire) ==
    /\ inbound.n < MaxInbound
    /\ LET incremented == CacheIncrement(RateKey, Some(rateLimitWindow), errIncr, errExpire)
           requestCount_ == incremented.value
       IN  /\ cache' = incremented.store
           /\ inbound' = [status |-> IF requestCount_ > rateLimitMaxRequests
                                     THEN "429" ELSE "next",
                          count |-> requestCount_,
                          at |-> now,
                          gap |-> IF inbound.n = 0 THEN 0 ELSE now - inbound.at,
                          n |-> inbound.n + 1]
    /\ UNCHANGED <<now, limVars, retryVars, upstream, call, ncalls, pureVars, cacheOpVars,
                   sockVars, mgrVars, adapter>>

\* most adapter calls in a behaviour
MaxAdapterCalls == 3
\* what one upstream request of an adapter can do
AdapterOutcomes(n) ==
    {[ok |-> TRUE, inv |-> n, status |-> 200]}
        \cup {[ok |-> FALSE, inv |-> n, status |-> st] : st \in {500, 404}}

IdleAdapter == [pc |-> "idle", proc |-> "p1", started |-> 0]
\* started (history): number of adapter calls begun
AdapterInit == adapter = IdleAdapter

AdapterFree ==
    \/ adapter.pc = "idle"
    \/ adapter.pc = "retry" /\ rpc \in {"returned", "thrown"}

\* an adapter method that does not go through the rate limiter
AdapterCallUnlimited(p) ==
    /\ AdapterFree
    /\ adapter.started < MaxAdapterCalls
    /\ adapter' = [pc |-> "acquire", proc |-> p, started |-> adapter.started + 1]
    /\ UNCHANGED <<now, limVars, retryVars, aggVars, pureVars, cacheOpVars, sockVars, mgrVars, inbound>>
\* an adapter method (getTrendingTokens, searchTokens, getTokenByAddress,
\* getAllTokens) is called: await this.rateLimiter.acquire(), up to acquire's
\* return or its await sleep
AdapterCall(p) ==
    /\ AdapterFree
    /\ adapter.started < MaxAdapterCalls
    /\ AcquireStep(p)
    /\ adapter' = [pc |-> "acquire", proc |-> p, started |-> adapter.started + 1]
    /\ UNCHANGED <<now, retryVars, aggVars, pureVars, cacheOpVars, sockVars, mgrVars, inbound>>

\* acquire() has returned: retryWithBackoff(fetchData, config.retry) up to the
\* first await fetchData(); every invocation of fetchData is one upstream request
AdapterRetry ==
    /\ adapter.pc = "acquire"
    /\ lpc[adapter.proc] = "idle"
    /\ RetryBegin(ConfigRetry)
    /\ adapter' = [adapter EXCEPT !.pc = "retry"]
    /\ UNCHANGED <<now, limVars, aggVars, pureVars, cacheOpVars, sockVars, mgrVars, inbound>>

EdgeInit == ManagerInit /\ InboundInit /\ AdapterInit

(***************************************************************************)
(* Specifications                                                          *)
(***************************************************************************)
Init ==
    now = 0 /\ LimiterInit /\ RetryInit /\ AggInit /\ PureIdle /\ CacheOpInit /\ SocketInit /\ EdgeInit

NextLimiter ==
    \/ \E p \in Procs : Acquire(p)
    \/ \E p \in Procs : Wake(p)
    \/ Tick

SpecLimiter == Init /\ [][NextLimiter]_vars

NextRetry ==
    \/ \E cfg \in RetryConfigs : RetryStart(cfg)
    \/ \E o \in Outcomes(Len(history) + 1) : RetryInvoke(o)
    \/ RetrySleepDone

SpecRetry == Init /\ [][NextRetry]_vars

NextAgg ==
    \/ \E c \in Callers, opts \in AggOptions : AggregateStart(c, opts, FALSE)
    \/ \E c \in Callers, q \in Queries, opts \in SearchOptions : SearchStart(c, q, opts, FALSE)
    \/ \E c \in Callers, dexOk \in BOOLEAN, jupOk \in BOOLEAN : AggregateFetched(c, dexOk, jupOk)
    \/ \E c \in Callers, dexOk \in BOOLEAN, jupOk \in BOOLEAN : SearchFetched(c, dexOk, jupOk)
    \/ \E c \in Callers : CacheWrite(c, FALSE)
    \/ Tick

SpecAgg == Init /\ [][NextAgg]_vars

NextAddress ==
    \/ \E c \in Callers, a \in AddressArgs : AddressStart(c, a, FALSE)
    \/ \E c \in Callers, ok \in BOOLEAN : AddressFetched(c, ok)
    \/ \E c \in Callers : CacheWrite(c, FALSE)
    \/ Tick

SpecAddress == Init /\ [][NextAddress]_vars

NextCache ==
    \/ \E k \in AllKeys, err \in BOOLEAN : OpGet(k, err)
    \/ \E ttl \in TtlArgs, err \in BOOLEAN : OpSet(AddrKey, TokB, ttl, err)
    \/ \E k \in AllKeys, err \in BOOLEAN : OpDelete(k, err)
    \/ \E p \in Patterns, err \in BOOLEAN : OpDeletePattern(p, err)
    \/ \E err \in BOOLEAN : OpDeletePatternDel(err)
    \/ \E k \in AllKeys, err \in BOOLEAN : OpExists(k, err)
    \/ \E ks \in MgetArgs, err \in BOOLEAN : OpMget(ks, err)
    \/ \E items \in MsetArgs, err \in BOOLEAN : OpMset(items, err)
    \/ \E e1 \in BOOLEAN, e2 \in BOOLEAN : OpIncrement(RateKey, Some(defaultTTL), e1, e2)
    \/ \E k \in AllKeys : ForeignWrite(k)
    \/ Tick

\* the cache is exercised against one answer of the upstream services
InitCache == Init /\ upstream = [dex |-> <<TokA, TokB>>, jup |-> <<JupA>>]

SpecCache == InitCache /\ [][NextCache]_vars

InitSocket ==
    /\ now = 0 /\ LimiterInit /\ RetryInit /\ PureIdle /\ CacheOpInit /\ SocketInit /\ EdgeInit
    /\ cache = << >>
    /\ upstream \in SocketScenarios
    /\ call = [c \in Callers |-> IdleCall]
    /\ ncalls = 0

NextSocket ==
    \/ \E k \in TickIds, err \in BOOLEAN : TickStart(k, err)
    \/ \E k \in TickIds : TickInvalidateDel(k, FALSE)
    \/ \E k \in TickIds : TickAggregate(k, FALSE)
    \/ \E k \in TickIds, u \in SocketScenarios, dexOk \in BOOLEAN :
            TickFetched(k, u, dexOk, TRUE)
    \/ \E k \in TickIds : TickCacheWrite(k, FALSE)
    \/ \E c \in Callers, opts \in OtherOptions : OtherAggregate(c, opts)
    \/ \E c \in Callers : AggregateFetched(c, TRUE, TRUE)
    \/ \E c \in Callers : CacheWrite(c, FALSE)

SpecSocket == InitSocket /\ [][NextSocket]_vars

InitPure ==
    now = 0 /\ LimiterInit /\ RetryInit /\ AggInit /\ PureInit /\ CacheOpInit /\ SocketInit /\ EdgeInit

NextPure ==
    \/ CallMergeSingleToken
    \/ CallMergeTokens
    \/ CallApplyFilters
    \/ CallApplySort
    \/ CallApplyPagination
    \/ CallGenerateCacheKey

SpecPure == InitPure /\ [][NextPure]_vars

(***************************************************************************)
(* Claims about the RateLimiter, checked under SpecLimiter.                *)
(***************************************************************************)
\* a step in which caller p is suspended inside acquire()
Suspends(p) == lpc[p] = "idle" /\ lpc'[p] = "sleeping"

\* number of calls admitted at a time in the span [windowStart, windowStart + windowMs)
RECURSIVE AdmittedFrom(_, _)
AdmittedFrom(t, n) ==
    IF n = 0 \/ t > MaxTime THEN 0 ELSE admitLog[t] + AdmittedFrom(t + 1, n - 1)

\* C1: in a window opened with counter 0 (by the constructor or by the lazy
\* reset, and not restarted since by a waking caller), each of the first
\* maxRequests calls returns without suspending, the (maxRequests+1)-th call
\* suspends with its timer due at windowStart + windowMs, and a suspended caller
\* returns only when the clock has reached its due time.
C1_AcquireWindow ==
    [][ /\ (calls' = calls + 1 /\ winFresh' /\ winCalls' <= maxRequests)
            => (lpc' = lpc /\ winAdmitted' = winCalls')
        /\ (calls' = calls + 1 /\ winFresh' /\ winCalls' = maxRequests + 1)
            => \E p \in Procs : Suspends(p) /\ wakeAt'[p] = windowStart' + windowMs
        /\ \A p \in Procs : (lpc[p] = "sleeping" /\ lpc'[p] = "idle")
            => now' >= wakeAt[p]
      ]_vars

\* C1 witness: the (maxRequests+1)-th call of a window opened with counter 0 is suspended
C1_Witness ==
    /\ winFresh
    /\ winCalls = maxRequests + 1
    /\ winAdmitted = maxRequests
    /\ \E p \in Procs : lpc[p] = "sleeping" /\ wakeAt[p] = windowStart + windowMs

\* C2 as stated: at most maxRequests calls are admitted in the span
\* [windowStart, windowStart + windowMs) of the clock.
C2_BudgetPerClockWindow == AdmittedFrom(windowStart, windowMs) <= maxRequests

\* C2 amended: at most maxRequests calls are admitted between two consecutive
\* assignments of windowStart; the counter never exceeds maxRequests.
C2_BudgetPerLimiterWindow ==
    /\ winAdmitted <= maxRequests
    /\ requestCount <= maxRequests
    /\ requestCount = winAdmitted

\* C2 witness: the budget of the limiter's window is used up while a caller waits
\* and more than maxRequests calls were admitted in the clock span of the window
C2_Witness ==
    /\ winAdmitted = maxRequests
    /\ \E p \in Procs : lpc[p] = "sleeping"
    /\ AdmittedFrom(windowStart, windowMs) > maxRequests

(***************************************************************************)
(* Claims about retryWithBackoff, checked under SpecRetry.                 *)
(***************************************************************************)
LastOutcome == history[Len(history)]
AllFailedRetryable ==
    \A i \in 1..Len(history) :
        ~history[i].ok /\ history[i].status \notin {404, 401, 403}

\* C3: the operation is invoked at most maxRetries+1 times; a successful
\* invocation is the last one and its result is what is returned; when all
\* maxRetries+1 invocations fail with retryable failures, the failure thrown is
\* the failure of the last invocation.
C3_RetryBound ==
    /\ Len(history) <= rcfg.maxRetries + 1
    /\ \A i \in 1..Len(history) :
          history[i].ok => (i = Len(history) /\ rpc = "returned" /\ rout = history[i])
    /\ rpc = "returned" => (history # <<>> /\ LastOutcome.ok)
    /\ (rpc = "thrown" /\ AllFailedRetryable)
          => (Len(history) = rcfg.maxRetries + 1 /\ rout = LastOutcome)

\* C3 witness: all maxRetries+1 invocations under config.retry failed with
\* retryable failures and the last failure was thrown
C3_Witness ==
    /\ rpc = "thrown"
    /\ rcfg = ConfigRetry
    /\ Len(history) = maxRetries + 1
    /\ AllFailedRetryable
    /\ rout = LastOutcome

\* C4: an invocation that fails with status 404, 401 or 403 is the last
\* invocation: that failure is thrown at once, with no sleep after it, whatever
\* the number of attempts remaining.
C4_NonRetryable ==
    \A i \in 1..Len(history) :
        (~history[i].ok /\ history[i].status \in {404, 401, 403})
            => /\ i = Len(history)
               /\ rpc = "thrown"
               /\ rout = history[i]
               /\ Len(delays) = i - 1

\* C4 witness: a 403 on the second invocation of a policy with retries left
C4_Witness ==
    /\ rpc = "thrown"
    /\ Len(history) = 2
    /\ rcfg.maxRetries = maxRetries
    /\ LastOutcome.status = 403
    /\ rout = LastOutcome

(***************************************************************************)
(* Claims about AggregationService, checked under SpecAgg and SpecAddress. *)
(***************************************************************************)
Finished(c) == call[c].pc \in {"set", "done"}
ListCall(c) == call[c].op \in {"aggregate", "search"}
Result(c) == Val(call[c].res)

\* what an adapter resolves to for the call of caller c
DexRecords(c) ==
    IF call[c].op = "search" THEN SearchHits(upstream.dex, call[c].arg) ELSE upstream.dex
JupRecords(c) ==
    IF call[c].op = "search" THEN SearchHits(upstream.jup, call[c].arg) ELSE upstream.jup

\* C5: on a cache miss with exactly one adapter rejecting, aggregateTokens and
\* searchTokens do not raise and return the merge, filter, sort and paginate of
\* the other adapter's records alone.
C5_PartialFailure ==
    \A c \in Callers :
        /\ ListCall(c) => call[c].pc # "raised"
        /\ (ListCall(c) /\ Finished(c) /\ ~call[c].hit
                /\ call[c].dex = "rejected" /\ call[c].jup = "fulfilled")
            => Result(c) = Pipeline(JupRecords(c), call[c].opts, Result(c).timestamp)
        /\ (ListCall(c) /\ Finished(c) /\ ~call[c].hit
                /\ call[c].dex = "fulfilled" /\ call[c].jup = "rejected")
            => Result(c) = Pipeline(DexRecords(c), call[c].opts, Result(c).timestamp)

\* C5 witness: aggregateTokens returned records of Jupiter while DexScreener rejected
C5_Witness ==
    \E c \in Callers :
        /\ call[c].pc = "done" /\ call[c].op = "aggregate" /\ ~call[c].hit
        /\ call[c].dex = "rejected" /\ call[c].jup = "fulfilled"
        /\ Result(c).total_count = 2
        /\ Result(c).tokens[1].protocol = "Jupiter"

\* C6: when every adapter rejects, aggregateTokens and searchTokens return
\* (no exception) an empty token sequence, total_count 0 and no next cursor.
C6_TotalOutage ==
    \A c \in Callers :
        (ListCall(c) /\ call[c].pc # "idle" /\ call[c].pc # "fetch" /\ ~call[c].hit
            /\ call[c].dex = "rejected" /\ call[c].jup = "rejected")
        => /\ Finished(c)
           /\ Result(c).tokens = <<>>
           /\ Result(c).total_count = 0
           /\ Result(c).next_cursor = Absent

\* C6 witness: a searchTokens call has returned after both adapters rejected
C6_Witness ==
    \E c \in Callers :
        /\ call[c].pc = "done" /\ call[c].op = "search" /\ ~call[c].hit
        /\ call[c].dex = "rejected" /\ call[c].jup = "rejected"

\* C7: getTokenByAddress never raises: when the upstream lookup fails or yields
\* no record it returns null, and nothing is cached for that address.
C7_AddressNeverRaises ==
    \A c \in Callers :
        call[c].op = "address"
        => /\ call[c].pc # "raised"
           /\ (call[c].pc = "done" /\ ~call[c].hit /\ call[c].dex = "rejected")
                => (call[c].res = Absent /\ GetKey(call[c].key) \notin DOMAIN cache)

\* C8: when the store holds an entry under the key derived from the request's
\* sort_by, sort_order, min_volume and min_liquidity (and answers the read),
\* aggregateTokens returns that entry unchanged, calls no adapter and writes
\* nothing to the cache, whatever the request's limit and cursor are.
C8_CacheHit ==
    [][ \A c \in Callers :
          (/\ ncalls' = ncalls + 1
           /\ call'[c] # call[c]
           /\ call'[c].op = "aggregate"
           /\ ~call'[c].storeErr
           /\ GetKey(GenerateCacheKey(call'[c].opts)) \in DOMAIN cache)
          => /\ call'[c].pc = "done"
             /\ call'[c].hit
             /\ call'[c].res =
                  Some(JsonParse(cache[GetKey(GenerateCacheKey(call'[c].opts))].val))
             /\ call'[c].dex = "none" /\ call'[c].jup = "none"
             /\ cache' = cache
      ]_vars

\* C8 witness: a request with limit 1 and a cursor was answered from the cache
\* with a page that starts at the first record and carries that very cursor
C8_Witness ==
    \E c \in Callers :
        /\ call[c].pc = "done" /\ call[c].op = "aggregate" /\ call[c].hit
        /\ call[c].opts.cursor = Some(EncodeCursor(1))
        /\ call[c].dex = "none" /\ call[c].jup = "none"
        /\ Result(c).next_cursor = Some(EncodeCursor(1))

\* the filtered and sorted collection of the current upstream contents
Collection(options) ==
    ApplySort(ApplyFilters(MergeTokens(upstream.dex \o upstream.jup), options), options)

\* C9: when the filtered+sorted collection has 2 elements and aggregateTokens
\* with limit=1 and no cursor returned the first element and a next cursor, a
\* following call with the same options, limit=1 and that cursor returns
\* exactly the second element and no further cursor.
C9_PaginationRoundTrip ==
    \A c \in Callers :
        (/\ call[c].op = "aggregate" /\ Finished(c)
         /\ call[c].hit \/ (call[c].dex = "fulfilled" /\ call[c].jup = "fulfilled")
         /\ IsSome(call[c].prev)
         /\ Len(Collection(call[c].opts)) = 2
         /\ Val(call[c].prev).opts.limit = Some(1)
         /\ Val(call[c].prev).opts.cursor = Absent
         /\ Val(call[c].prev).res.tokens = <<Collection(call[c].opts)[1]>>
         /\ Val(call[c].prev).res.total_count = 2
         /\ IsSome(Val(call[c].prev).res.next_cursor)
         /\ call[c].opts = [Val(call[c].prev).opts EXCEPT
                               !.cursor = Val(call[c].prev).res.next_cursor])
        => /\ Result(c).tokens = <<Collection(call[c].opts)[2]>>
           /\ Result(c).next_cursor = Absent

\* C10: generateCacheKey depends on sort_by, sort_order, min_volume and
\* min_liquidity only: the key computed for a request is the key of every
\* option set that differs from it in limit, cursor or time_period.
C10_KeyDeterminism ==
    \A c \in Callers :
        call[c].op = "aggregate"
        => \A l \in {Absent, Some(1), Some(50)},
              cu \in {Absent, Some(EncodeCursor(1)), Some(GarbageCursor)},
              tp \in {Absent, Some("24h")} :
              GenerateCacheKey([call[c].opts EXCEPT
                                  !.limit = l, !.cursor = cu, !.time_period = tp])
                  = call[c].key

\* C10 witness: two consecutive requests that differ in limit or cursor used one key
C10_Witness ==
    \E c \in Callers :
        /\ call[c].op = "aggregate" /\ IsSome(call[c].prev)
        /\ Val(call[c].prev).opts # call[c].opts
        /\ GenerateCacheKey(Val(call[c].prev).opts) = call[c].key

(***************************************************************************)
(* Claims about the pure methods, checked under SpecPure.                  *)
(***************************************************************************)
Returned(fn) == pureIn.fn = fn /\ IsSome(pureOut)
KeyFields == {"sort_by", "sort_order", "min_volume", "min_liquidity"}

\* the value a key field stands for: an absent (or falsy) field stands for its default
EffectiveField(options, f) ==
    IF f \in {"sort_by", "sort_order"}
    THEN IF options[f] = Absent \/ options[f] = Some("")
         THEN (IF f = "sort_by" THEN "volume" ELSE "desc")
         ELSE Val(options[f])
    ELSE IF options[f] = Absent THEN 0 ELSE Val(options[f])

\* C11 as stated: two option sets that differ in exactly one of sort_by,
\* sort_order, min_volume, min_liquidity, an absent field being different from
\* every explicit value, get different keys.
C11_KeySensitiveToAbsence ==
    Returned("generateCacheKey")
    => \A o \in KeyOptions :
          Cardinality({f \in KeyFields : o[f] # pureIn.options[f]}) = 1
              => GenerateCacheKey(o) # Val(pureOut)

\* C11 amended: two option sets whose effective values (absent sort_by =
\* "volume", absent sort_order = "desc", absent threshold = 0) differ in exactly
\* one of the four fields get different keys; option sets with the same
\* effective values get the same key.
C11_KeySensitivity ==
    Returned("generateCacheKey")
    => \A o \in KeyOptions :
          LET differing == {f \in KeyFields :
                              EffectiveField(o, f) # EffectiveField(pureIn.options, f)}
          IN  /\ Cardinality(differing) = 1 => GenerateCacheKey(o) # Val(pureOut)
              /\ differing = {} => GenerateCacheKey(o) = Val(pureOut)

\* C11 witness: a key was computed for options with an explicit threshold and
\* an absent sort key
C11_Witness ==
    /\ Returned("generateCacheKey")
    /\ pureIn.options.min_liquidity = Some(300)
    /\ pureIn.options.min_volume = Some(750)
    /\ pureIn.options.sort_by = Absent

MaxFields == {"market_cap_sol", "volume_sol", "liquidity_sol",
              "transaction_count", "last_updated"}
GreatestOf(S) == CHOOSE m \in S : \A x \in S : m >= x
\* positions of the input records at the (lower-cased) address of record t
SameAddress(tokens, t) ==
    {i \in 1..Len(tokens) : Lower(tokens[i].token_address) = Lower(t.token_address)}

\* C12: mergeTokens returns one record per lower-cased address, and its market
\* cap, volume, liquidity, transaction count and last-updated are each the
\* maximum of that field over all input records at that address;
\* mergeSingleToken yields the maximum of the two records' values.
C12_MergeMaxFields ==
    /\ Returned("mergeTokens")
        => LET merged == Val(pureOut)
               tokens == pureIn.tokens
           IN  /\ \A i \in 1..Len(tokens) : SameAddress(merged, tokens[i]) # {}
               /\ \A j \in 1..Len(merged) :
                    /\ SameAddress(merged, merged[j]) = {j}
                    /\ \A f \in MaxFields :
                         merged[j][f] =
                            GreatestOf({tokens[i][f] : i \in SameAddress(tokens, merged[j])})
    /\ Returned("mergeSingleToken")
        => \A f \in MaxFields :
              Val(pureOut)[f] = GreatestOf({pureIn.token1[f], pureIn.token2[f]})

\* C12 witness: three records of one address (in two spellings) were merged
\* into one, the greatest volume coming last
C12_Witness ==
    /\ Returned("mergeTokens")
    /\ pureIn.tokens = <<TokA, JupA, TokU>>
    /\ Len(Val(pureOut)) = 1
    /\ Val(pureOut)[1].volume_sol = 700
    /\ Val(pureOut)[1].last_updated = 3

IdentityFields == {"token_name", "token_ticker", "price_sol", "price_1hr_change",
                   "price_24hr_change", "price_7d_change", "protocol", "dex_id"}
\* a value that is neither empty nor a placeholder
RealValue(v, f) ==
    CASE f \in {"token_name", "token_ticker", "protocol"} ->
            v \notin {"", "Unknown", "UNKNOWN"}
      [] f \in {"price_sol", "price_1hr_change"} -> v # 0
      [] f \in {"price_24hr_change", "price_7d_change"} -> IsSome(v) /\ Val(v) # 0
      [] OTHER -> IsSome(v) /\ Val(v) \notin {"", "Unknown"}

\* the merged record carries, in field f, the first real value among the
\* input records at its address (when there is one)
FirstRealWins(tokens, m, f) ==
    LET real == {i \in SameAddress(tokens, m) : RealValue(tokens[i][f], f)}
    IN  real # {} => m[f] = tokens[CHOOSE i \in real : \A k \in real : i <= k][f]

\* C13: for each of name, ticker, price, the % changes, protocol and dex id the
\* merged record carries the first value, in input order among the records at
\* its address, that is non-empty and not the "Unknown" placeholder; an earlier
\* placeholder never masks a later real value.
C13_MergeIdentityFields ==
    Returned("mergeTokens")
    => \A j \in 1..Len(Val(pureOut)) : \A f \in IdentityFields :
          FirstRealWins(pureIn.tokens, Val(pureOut)[j], f)

\* C14: merging a record with itself yields that record, equal in every field:
\* mergeSingleToken(t, t) = t, and mergeTokens over a sequence that holds only
\* copies of t returns the single record t.
C14_MergeIdempotent ==
    /\ (Returned("mergeSingleToken") /\ pureIn.token1 = pureIn.token2)
        => Val(pureOut) = pureIn.token1
    /\ (Returned("mergeTokens") /\ Len(pureIn.tokens) >= 2
            /\ \A i \in 1..Len(pureIn.tokens) : pureIn.tokens[i] = pureIn.tokens[1])
        => Val(pureOut) = <<pureIn.tokens[1]>>

\* C14 witness: a record with non-zero values was merged with itself, by
\* mergeSingleToken
C14_Witness ==
    /\ Returned("mergeSingleToken")
    /\ pureIn.token1 = TokE
    /\ pureIn.token2 = TokE
    /\ Val(pureOut).market_cap_sol = 3000

\* C15: applyFilters returns exactly the input records, in input order, whose
\* volume is >= min_volume when min_volume is set and whose liquidity is >=
\* min_liquidity when min_liquidity is set; an absent threshold excludes nothing.
C15_FilterExact ==
    Returned("applyFilters")
    => LET options == pureIn.options
           Kept(t) ==
              /\ IsSome(options.min_volume) => t.volume_sol >= Val(options.min_volume)
              /\ IsSome(options.min_liquidity)
                    => t.liquidity_sol >= Val(options.min_liquidity)
       IN  Val(pureOut) = SelectSeq(pureIn.tokens, Kept)

\* C15 witness: min_volume = 750 over the volumes 500 and 1000 kept the 1000 record
C15_Witness ==
    /\ Returned("applyFilters")
    /\ pureIn.tokens = <<TokA, TokB>>
    /\ pureIn.options.min_volume = Some(750)
    /\ pureIn.options.min_liquidity = Absent
    /\ Val(pureOut) = <<TokB>>

\* threshold b is higher than threshold a (no threshold is the lowest)
Higher(a, b) == IsSome(b) /\ (IsSome(a) => Val(b) > Val(a))
\* option set o2 is o1 with one of the two thresholds raised
Raised(o1, o2) ==
    \/ Higher(o1.min_volume, o2.min_volume)
          /\ o2 = [o1 EXCEPT !.min_volume = o2.min_volume]
    \/ Higher(o1.min_liquidity, o2.min_liquidity)
          /\ o2 = [o1 EXCEPT !.min_liquidity = o2.min_liquidity]
Occurrences(seq, t) == Cardinality({i \in 1..Len(seq) : seq[i] = t})

\* C16: for one record set and two option sets that differ only in one
\* threshold, higher in the second, every record of the second's result is in
\* the first's (as often), so the second result is never the longer one.
C16_FilterMonotonic ==
    Returned("applyFilters")
    => \A o2 \in FilterOptions :
          Raised(pureIn.options, o2)
          => LET second == ApplyFilters(pureIn.tokens, o2)
             IN  /\ Len(second) <= Len(Val(pureOut))
                 /\ \A t \in PureTokens :
                       Occurrences(second, t) <= Occurrences(Val(pureOut), t)

\* C16 witness: raising min_volume from 500 to 750 shrinks a result of two records
C16_Witness ==
    /\ Returned("applyFilters")
    /\ pureIn.options.min_volume = Some(500)
    /\ pureIn.options.min_liquidity = Some(200)
    /\ Len(Val(pureOut)) = 2
    /\ Len(ApplyFilters(pureIn.tokens, [pureIn.options EXCEPT !.min_volume = Some(750)])) = 1

\* the sort key the request asks for
RequestedKey(t, options) ==
    CASE options.sort_by = Some("market_cap") -> t.market_cap_sol
      [] options.sort_by = Some("liquidity") -> t.liquidity_sol
      [] options.sort_by = Some("price_change") -> t.price_1hr_change
      [] OTHER -> t.volume_sol
IsPermutation(s1, s2) ==
    /\ Len(s1) = Len(s2)
    /\ \A t \in PureTokens : Occurrences(s1, t) = Occurrences(s2, t)

\* C17: applySort returns a permutation of its input in which the key of the
\* requested field (volume, market_cap, liquidity, price_change = 1-hour
\* change; absent or unrecognised sort_by = volume) of adjacent records is
\* non-increasing when the direction is desc or absent and non-decreasing when
\* it is asc; the array passed in is left as it was.
C17_SortOrder ==
    [][ (pureIn.fn = "applySort" /\ pureOut = Absent /\ IsSome(pureOut'))
        => LET sorted == Val(pureOut')
               options == pureIn.options
           IN  /\ pureIn' = pureIn
               /\ IsPermutation(sorted, pureIn.tokens)
               /\ \A i \in 1..(Len(sorted) - 1) :
                    IF options.sort_order = Some("asc")
                    THEN RequestedKey(sorted[i], options) <= RequestedKey(sorted[i + 1], options)
                    ELSE RequestedKey(sorted[i], options) >= RequestedKey(sorted[i + 1], options)
      ]_vars

\* C17 witness: the volumes 500, 1000 were sorted with no options given and
\* came back as 1000, 500
C17_Witness ==
    /\ Returned("applySort")
    /\ pureIn.tokens = <<TokA, TokB>>
    /\ pureIn.options = NoOptions
    /\ Val(pureOut) = <<TokB, TokA>>

Page == Val(pureOut).page
NegativeLimit(options) == IsSome(options.limit) /\ Val(options.limit) < 0
\* the page size a request asks for: 20 when none is given, at most 100
RequestedSize(options) ==
    IF options.limit \in {Absent, Some(0)} THEN 20
    ELSE IF Val(options.limit) > 100 THEN 100 ELSE Val(options.limit)
\* the offsets o >= 0 that the request's cursor encodes (0 without a cursor)
RequestedOffsets(options) ==
    IF options.cursor \in {Absent, Some(<<>>)} THEN {0}
    ELSE {o \in {0, 1, 2, 24, 200} : options.cursor = Some(EncodeCursor(o))}

\* C18: for a collection of size n, a cursor that encodes the offset o >= 0
\* and an effective limit L >= 1, applyPagination returns the elements at the
\* positions [o, min(o+L, n)) in order, total_count = n, and a next cursor,
\* which decodes to o+L, if and only if o+L < n.
C18_Paginate ==
    (Returned("applyPagination") /\ ~NegativeLimit(pureIn.options))
    => \A o \in RequestedOffsets(pureIn.options) :
          LET n == Len(pureIn.tokens)
              L == RequestedSize(pureIn.options)
          IN  /\ Page.tokens = SubSeq(pureIn.tokens, o + 1, IF o + L < n THEN o + L ELSE n)
              /\ Page.total_count = n
              /\ IsSome(Page.next_cursor) <=> o + L < n
              /\ IsSome(Page.next_cursor)
                    => DecodeCursor(Val(Page.next_cursor)) = Some(o + L)

\* C18 witness: 25 records, no limit given, cursor for offset 2: the page is
\* the 20 records from offset 2 and the next cursor encodes 22
C18_Witness ==
    /\ Returned("applyPagination")
    /\ Len(pureIn.tokens) = 25
    /\ pureIn.options.limit = Absent
    /\ pureIn.options.cursor = Some(EncodeCursor(2))
    /\ Len(Page.tokens) = 20
    /\ Page.tokens[1] = pureIn.tokens[3]
    /\ Page.next_cursor = Some(EncodeCursor(22))

\* C19: the effective page size is within [1, maxLimit]: a limit above the
\* maximum becomes the maximum, and an absent, zero or negative limit never
\* gives a page size below 1 (the first page of a non-empty collection is
\* never empty).
C19_LimitClamp ==
    Returned("applyPagination")
    => /\ Val(pureOut).limit >= 1
       /\ Val(pureOut).limit <= maxLimit
       /\ (IsSome(pureIn.options.limit) /\ Val(pureIn.options.limit) > maxLimit)
            => Val(pureOut).limit = maxLimit
       /\ (pureIn.options.cursor = Absent /\ Len(pureIn.tokens) >= 1)
            => (Len(Page.tokens) >= 1 /\ Len(Page.tokens) <= maxLimit)

\* C20: a cursor that does not decode to a non-negative integer is treated as
\* offset 0: the page returned is the page of the same request without cursor.
C20_CursorDecodeFailure ==
    (/\ Returned("applyPagination")
     /\ ~NegativeLimit(pureIn.options)
     /\ pureIn.options.cursor \in {Some(GarbageCursor), Some(EncodeCursor(-1))})
    => Page = ApplyPagination(pureIn.tokens, [pureIn.options EXCEPT !.cursor = Absent],
                              Page.timestamp)

(***************************************************************************)
(* Claims about CacheService                                               *)
(***************************************************************************)
\* a step that ends a direct CacheService call
Ends(op) == cacheOp'.op = op /\ cacheOp'.pc # "del" /\ (ncops' # ncops \/ cacheOp.pc = "del")
EndsAny == \E op \in Caught : Ends(op)

\* what a read answers for a miss
ReportsMiss(o) ==
    CASE o.op = "get" -> o.result = Absent
      [] o.op = "exists" -> o.result = FALSE
      [] o.op = "mget" -> \A i \in DOMAIN o.result : o.result[i] = Absent
      [] o.op = "increment" -> o.result = 0
      [] OTHER -> TRUE

\* C21: a CacheService call in which a store command failed or an entry was
\* malformed ends without raising, answers a miss when it is a read, and
\* leaves the store as it was
C21_FailureContained ==
    [][EndsAny /\ cacheOp'.failed =>
          /\ cacheOp'.pc = "done"
          /\ ReportsMiss(cacheOp')
          /\ cache' = cache]_vars

\* what get(k) answers while the store works
Lookup(k) == CacheGet(k, FALSE)
\* the step is a completed write of k, a completed removal of k, the expiry of k
Overwrites(k) ==
    \/ Ends("set") /\ ~cacheOp'.failed /\ cacheOp'.key = k
    \/ Ends("mset") /\ ~cacheOp'.failed
          /\ \E i \in DOMAIN cacheOp'.items : cacheOp'.items[i].key = k
Deletes(k) ==
    \/ Ends("delete") /\ ~cacheOp'.failed /\ cacheOp'.key = k
    \/ Ends("deletePattern") /\ ~cacheOp'.failed /\ GetKey(k) \in cacheOp'.keys
Expires(k) ==
    /\ now' # now
    /\ GetKey(k) \in DOMAIN cache
    /\ cache[GetKey(k)].exp # NoExpiry
    /\ cache[GetKey(k)].exp <= now'

\* C22: get(k) answers the entry of k; after set(k, v, ttl) that entry is v
\* and lives for ttl seconds; it stays v until k is overwritten, deleted or
\* its ttl has elapsed; it is null after a delete, after the ttl has elapsed,
\* and for as long as k is not set
C22_EntryLifetime ==
    [][LET k == AddrKey
       IN  /\ Ends("get") /\ cacheOp'.key = k /\ ~cacheOp'.failed
                => cacheOp'.result = Lookup(k)
           /\ Ends("set") /\ cacheOp'.key = k /\ ~cacheOp'.failed
                => /\ Lookup(k)' = Some(cacheOp'.value)
                   /\ cache'[GetKey(k)].exp = now + cacheOp'.ttl
           /\ Lookup(k) # Absent /\ ~Overwrites(k) /\ ~Deletes(k) /\ ~Expires(k)
                => Lookup(k)' = Lookup(k)
           /\ (Deletes(k) \/ Expires(k)) /\ ~Overwrites(k) => Lookup(k)' = Absent
           /\ Lookup(k) = Absent /\ ~Overwrites(k) => Lookup(k)' = Absent]_vars

\* a get has answered the value an earlier set stored, at a later time
C22_Witness ==
    /\ cacheOp.op = "get"
    /\ cacheOp.key = AddrKey
    /\ ~cacheOp.failed
    /\ cacheOp.result = Some(TokB)
    /\ now > 0

\* a key of the store under `${config.cache.prefix}${CACHE_KEY_PREFIX}`
InNamespace(k) ==
    /\ Len(k) >= 4
    /\ k[1] = "meme-coin" /\ k[2] = ":" /\ k[3] = "tokens" /\ k[4] = ":"

\* C23: when invalidateCache returns without a store error, every entry
\* that was under the aggregation namespace when it looked is gone, and
\* every entry outside the namespace is as it was
C23_Invalidate ==
    [][Ends("deletePattern") /\ ~cacheOp'.failed /\ cacheOp'.pattern = NamespacePattern =>
          /\ \A k \in cacheOp'.present : InNamespace(k) => k \notin DOMAIN cache'
          /\ \A k \in DOMAIN cache :
                ~InNamespace(k) => k \in DOMAIN cache' /\ cache'[k] = cache[k]
          /\ DOMAIN cache' \subseteq DOMAIN cache]_vars

\* invalidateCache has removed an aggregate, a search and a by-address
\* entry and left the rate-limit counter
C23_Witness ==
    /\ cacheOp.op = "deletePattern"
    /\ cacheOp.pc = "done"
    /\ ~cacheOp.failed
    /\ cacheOp.keys = {GetKey(AggKey), GetKey(SearchKey), GetKey(AddrKey)}
    /\ DOMAIN cache = {GetKey(RateKey)}

(***************************************************************************)
(* Claims about the update loop                                            *)
(***************************************************************************)
\* the run of checkForUpdates that finished last, and what it compared
Ran == emitted.ran
New(address) == MapGet(CurrentTokens(emitted.tokens), address)
Prev(address) == MapGet(emitted.before, address)
InBoth(address) == IsSome(New(address)) /\ IsSome(Prev(address))
Addresses == {"addr1", "addr2", "addr3"}
\* the tokens of the batch broadcast under a name, <<>> when none was
Batch(name) ==
    LET Named(e) == e.event = name
        sent == SelectSeq(emitted.events, Named)
    IN  IF sent = <<>> THEN <<>> ELSE sent[1].data
InBatch(name, address) ==
    \E i \in DOMAIN Batch(name) : Batch(name)[i].token_address = address

\* C24: a token of both snapshots is in the price-update batch exactly when
\* |new.price - prev.price| * 100 > prev.price, for a previous price above 0
C24_PriceThreshold ==
    Ran => \A a \in Addresses :
              InBoth(a) /\ Val(Prev(a)).price_sol > 0 =>
                  (InBatch("price_updates", a)
                     <=> Abs(Val(New(a)).price_sol - Val(Prev(a)).price_sol) * 100
                            > Val(Prev(a)).price_sol)

\* a move from 1.000 to 1.020 was broadcast
C24_Witness ==
    /\ Ran
    /\ InBoth("addr1")
    /\ Val(Prev("addr1")).price_sol = 1000
    /\ Val(New("addr1")).price_sol = 1020
    /\ InBatch("price_updates", "addr1")

\* C25: a token of both snapshots is in the volume-spike batch exactly when
\* (new.volume - prev.volume) * 100 > 50 * prev.volume, for a previous
\* volume above 0; a decrease never qualifies
C25_VolumeThreshold ==
    Ran => \A a \in Addresses :
              InBoth(a) =>
                  /\ Val(Prev(a)).volume_sol > 0 =>
                        (InBatch("volume_spikes", a)
                           <=> (Val(New(a)).volume_sol - Val(Prev(a)).volume_sol) * 100
                                  > 50 * Val(Prev(a)).volume_sol)
                  /\ Val(New(a)).volume_sol < Val(Prev(a)).volume_sol
                        => ~InBatch("volume_spikes", a)

\* a volume spike was broadcast for a token whose price moved by less than
\* 1%, so that it is in no price-update batch
C25_Witness ==
    /\ Ran
    /\ InBoth("addr1")
    /\ Val(Prev("addr1")).volume_sol = 40
    /\ Val(New("addr1")).volume_sol = 100
    /\ InBatch("volume_spikes", "addr1")
    /\ ~InBatch("price_updates", "addr1")

\* the token_update events of the last run that went to the topic of an address
UpdatesTo(address) ==
    {i \in DOMAIN emitted.events :
        /\ emitted.events[i].event = "token_update"
        /\ emitted.events[i].room = <<"token", ":", address>>}

\* C26: for every address of both snapshots the run emits exactly one
\* token_update to `token:${address}`, and it carries the new record
C26_TokenUpdates ==
    Ran => \A a \in Addresses :
              InBoth(a) =>
                  /\ Cardinality(UpdatesTo(a)) = 1
                  /\ \A i \in UpdatesTo(a) : emitted.events[i].data = <<Val(New(a))>>

\* a token whose price and volume crossed no threshold got its token_update
C26_Witness ==
    /\ Ran
    /\ InBoth("addr1")
    /\ ~InBatch("price_updates", "addr1")
    /\ ~InBatch("volume_spikes", "addr1")
    /\ Val(New("addr1")) # Val(Prev("addr1"))
    /\ Cardinality(UpdatesTo("addr1")) = 1

\* an address of the new snapshot that the previous snapshot does not hold
FirstAppearance(address) == IsSome(New(address)) /\ ~IsSome(Prev(address))

\* C27: a token that appears for the first time is in neither batch and
\* gets no token_update; a run that compares against an empty previous
\* snapshot emits no event
C27_FirstAppearanceSilent ==
    Ran => /\ \A a \in Addresses :
                FirstAppearance(a) =>
                    /\ ~InBatch("price_updates", a)
                    /\ ~InBatch("volume_spikes", a)
                    /\ UpdatesTo(a) = {}
           /\ emitted.before = <<>> => emitted.events = <<>>

\* a run emitted an event for a token it knew and none for the two tokens
\* that appeared for the first time
C27_Witness ==
    /\ Ran
    /\ FirstAppearance("addr1")
    /\ FirstAppearance("addr2")
    /\ InBoth("addr3")
    /\ Len(emitted.events) = 1

\* a step in which a run of checkForUpdates finishes
Finishes == \E k \in TickIds : tick[k].pc \in {"get", "set"} /\ tick'[k].pc = "idle"
IsBatch(e) == e.event \in {"price_updates", "volume_spikes"}

\* C28: the step that finishes a run leaves as previous snapshot exactly the
\* map of the run's new snapshot; what the run broadcast was decided against
\* the snapshot retained until that step, and no empty batch is broadcast
C28_SnapshotReplaced ==
    [][Finishes =>
          /\ previousTokens' = CurrentTokens(emitted'.tokens)
          /\ \A t \in Addresses :
                MapGet(previousTokens', t) = MapGet(CurrentTokens(emitted'.tokens), t)
          /\ emitted'.before = previousTokens
          /\ \A i \in DOMAIN emitted'.events :
                /\ IsBatch(emitted'.events[i]) => Len(emitted'.events[i].data) > 0
                /\ \A j \in DOMAIN emitted'.events[i].data :
                      IsSome(MapGet(previousTokens,
                                    emitted'.events[i].data[j].token_address))]_vars

\* a run has dropped two addresses that its new snapshot lacks
C28_Witness ==
    /\ Ran
    /\ IsSome(Prev("addr1")) /\ IsSome(Prev("addr2"))
    /\ ~IsSome(New("addr1")) /\ ~IsSome(New("addr2"))
    /\ Len(previousTokens) = 1
    /\ previousTokens[1].token_address = "addr3"

\* C29: the aggregate a run of checkForUpdates compares is never answered
\* from a cache entry
C29_FreshSnapshot == Ran => ~emitted.hit

(***************************************************************************)
(* Claims about callers suspended together in RateLimiter.acquire          *)
(***************************************************************************)
\* a step in which caller p returns from its sleep inside acquire()
Wakes(p) == lpc[p] = "sleeping" /\ lpc'[p] = "idle"

\* C30: every caller suspended in an exhausted window is due at that
\* window's rollover; each is admitted when it wakes, no earlier than the
\* rollover and without a new check of the budget, and leaves the counter
\* at 1 with windowStart at its wake time, however many woke before it
C30_SimultaneousWake ==
    [][\A p \in Procs :
          /\ Suspends(p) => wakeAt'[p] = windowStart' + windowMs
          /\ Wakes(p) => /\ now >= wakeAt[p]
                         /\ requestCount' = 1
                         /\ windowStart' = now
                         /\ admitLog'[now] = admitLog[now] + 1]_vars

\* two callers suspended in the same exhausted window have both woken at
\* its rollover and been admitted; the counter is 1
C30_Witness ==
    /\ \A p \in Procs : lpc[p] = "idle" /\ wakeAt[p] = now
    /\ now > 0
    /\ windowStart = now
    /\ requestCount = 1
    /\ admitLog[now] = 2

(***************************************************************************)
(* Claims about the backoff schedule                                       *)
(***************************************************************************)
\* initialDelay * backoffMultiplier^i, by repeated multiplication
RECURSIVE Grown(_, _)
Grown(d, i) == IF i = 0 THEN d ELSE Grown(d * rcfg.backoffMultiplier, i - 1)

\* C31: the i-th suspension (0-based) of a call of retryWithBackoff lasts
\* min(initialDelay * backoffMultiplier^i, maxDelay); the suspensions never
\* shrink and never exceed maxDelay; there is one per failed attempt that
\* is followed by another attempt, and none after the attempt that ends
\* the call
C31_BackoffSchedule ==
    /\ \A i \in DOMAIN delays :
          /\ delays[i] = IF Grown(rcfg.initialDelay, i - 1) <= rcfg.maxDelay
                         THEN Grown(rcfg.initialDelay, i - 1) ELSE rcfg.maxDelay
          /\ delays[i] <= rcfg.maxDelay
          /\ i > 1 => delays[i - 1] <= delays[i]
    /\ rpc \in {"call", "sleep"} => Len(delays) = Len(history)
    /\ rpc \in {"returned", "thrown"} /\ history # <<>> => Len(delays) = Len(history) - 1
    /\ Len(delays) <= rcfg.maxRetries

\* a call gave up after maxRetries suspensions, the last one capped by maxDelay
C31_Witness ==
    /\ rpc = "thrown"
    /\ Len(history) = rcfg.maxRetries + 1
    /\ Len(delays) = 3
    /\ delays[2] = 2000
    /\ delays[3] = rcfg.maxDelay
    /\ rcfg.maxDelay < Grown(rcfg.initialDelay, 2)

(***************************************************************************)
(* Claims about the grouping and the order of the merge                    *)
(***************************************************************************)
\* the position at which a lower-cased address first occurs in a sequence
FirstAt(tokens, address) ==
    CHOOSE i \in 1..Len(tokens) :
        /\ Lower(tokens[i].token_address) = address
        /\ \A j \in 1..(i - 1) : Lower(tokens[j].token_address) # address
LoweredAddresses(tokens) == {Lower(tokens[i].token_address) : i \in 1..Len(tokens)}

\* C32: mergeTokens returns one record for every lower-cased address of
\* its input and no other, and the records are in the order in which their
\* addresses first occur in the input
C32_MergeGrouping ==
    Returned("mergeTokens")
    => LET input == pureIn.tokens
           merged == Val(pureOut)
       IN  /\ LoweredAddresses(merged) = LoweredAddresses(input)
           /\ Len(merged) = Cardinality(LoweredAddresses(input))
           /\ \A i \in 1..Len(merged), j \in 1..Len(merged) :
                 i < j => FirstAt(input, Lower(merged[i].token_address))
                            < FirstAt(input, Lower(merged[j].token_address))

\* two spellings of one address were grouped, behind a record of another
\* address that came first
C32_Witness ==
    /\ Returned("mergeTokens")
    /\ pureIn.tokens = <<TokB, JupA, TokA>>
    /\ Len(Val(pureOut)) = 2
    /\ Val(pureOut)[1].token_address = "addr2"
    /\ Val(pureOut)[2].token_address = "Addr1"

(***************************************************************************)
(* The two adapter promises of aggregateTokens and searchTokens settle one *)
(* at a time, in either order; call[c].settled lists the settlements in    *)
(* the order of completion.                                                *)
(***************************************************************************)
\* the promises handed to Promise.allSettled, by position in the array
PromiseIndexes == {1, 2}

\* a result array filled in the order of completion
AllSettledByCompletion(settlements) ==
    [i \in 1..Len(settlements) |-> settlements[i].result]
\* Promise.allSettled: the result array follows the array of promises
AllSettled(settlements) ==
    [i \in 1..Len(settlements) |->
        settlements[CHOOSE j \in 1..Len(settlements) : settlements[j].index = i].result]

Settlements(c) == IF "settled" \in DOMAIN call[c] THEN call[c].settled ELSE <<>>

\* one adapter promise settles while the call awaits Promise.allSettled
AdapterSettled(c, index, ok) ==
    /\ call[c].pc = "fetch"
    /\ ListCall(c)
    /\ \A j \in 1..Len(Settlements(c)) : Settlements(c)[j].index # index
    /\ LET records == IF index = 1 THEN DexRecords(c) ELSE JupRecords(c)
           settlement == [index |-> index, result |-> Settled(ok, records)]
       IN  call' = [call EXCEPT ![c] =
                     [f \in (DOMAIN call[c]) \cup {"settled"} |->
                        IF f = "settled" THEN Append(Settlements(c), settlement)
                        ELSE call[c][f]]]
    /\ UNCHANGED <<cache, upstream, ncalls, now, limVars, retryVars, mgrVars, inbound, adapter, pureVars, cacheOpVars, sockVars>>

\* both promises have settled: Promise.allSettled resolves and the call goes on
Gathered(c) ==
    /\ call[c].pc = "fetch"
    /\ ListCall(c)
    /\ Len(Settlements(c)) = Cardinality(PromiseIndexes)
    /\ LET results == AllSettled(Settlements(c))
       IN  Fetched(c, results[1], results[2])

NextSettle ==
    \/ \E c \in Callers, opts \in AggOptions : AggregateStart(c, opts, FALSE)
    \/ \E c \in Callers, q \in Queries, opts \in SearchOptions : SearchStart(c, q, opts, FALSE)
    \/ \E c \in Callers, i \in PromiseIndexes, ok \in BOOLEAN : AdapterSettled(c, i, ok)
    \/ \E c \in Callers : Gathered(c)
    \/ \E c \in Callers : CacheWrite(c, FALSE)

SpecSettle == Init /\ [][NextSettle]_vars

(***************************************************************************)
(* Claims about the order of the merge input, checked under SpecSettle.    *)
(***************************************************************************)
\* the records of the adapters that fulfilled, DexScreener's first
InSourceOrder(c) ==
    (IF call[c].dex = "fulfilled" THEN DexRecords(c) ELSE <<>>)
    \o (IF call[c].jup = "fulfilled" THEN JupRecords(c) ELSE <<>>)

\* C33: in aggregateTokens and searchTokens the merge input holds the records
\* of DexScreener before those of Jupiter whichever adapter settles first, so
\* the result is the one computed from that order under every completion order.
C33_MergeOrderFixed ==
    \A c \in Callers :
        (ListCall(c) /\ Finished(c) /\ ~call[c].hit)
        => Result(c) = Pipeline(InSourceOrder(c), call[c].opts, Result(c).timestamp)

\* C33 witness: Jupiter settled first, and the record merged from both sources
\* still carries the fields of DexScreener's record
C33_Witness ==
    \E c \in Callers :
        /\ call[c].pc = "done" /\ call[c].op = "aggregate" /\ ~call[c].hit
        /\ call[c].opts = NoOptions
        /\ Settlements(c)[1].index = 2
        /\ call[c].dex = "fulfilled" /\ call[c].jup = "fulfilled"
        /\ upstream = [dex |-> <<TokA, TokB>>, jup |-> <<JupA>>]
        /\ \E i \in 1..Len(Result(c).tokens) :
              /\ Result(c).tokens[i].token_address = TokA.token_address
              /\ Result(c).tokens[i].protocol = TokA.protocol

(***************************************************************************)
(* The update loop with stop(), and the filter registry with its events.   *)
(***************************************************************************)
NextManager ==
    \/ \E k \in TickIds : TickStart(k, FALSE)
    \/ \E k \in TickIds : TickInvalidateDel(k, FALSE)
    \/ \E k \in TickIds : TickAggregate(k, FALSE)
    \/ \E k \in TickIds : TickFetched(k, upstream, TRUE, TRUE)
    \/ \E k \in TickIds : TickCacheWrite(k, FALSE)
    \/ Stop

SpecManager == InitSocket /\ [][NextManager]_vars

NextRegistry ==
    \/ \E s \in SocketIds : Connect(s)
    \/ \E s \in SocketIds, f \in FilterArgs : SetFilters(s, f)
    \/ \E s \in SocketIds : Disconnect(s)
    \/ \E c \in Callers, opts \in OtherOptions : OtherAggregate(c, opts)
    \/ \E c \in Callers : AggregateFetched(c, TRUE, TRUE)
    \/ \E c \in Callers : CacheWrite(c, FALSE)

SpecRegistry == Init /\ [][NextRegistry]_vars

\* C34: once stop() has returned no run of checkForUpdates begins, a further
\* stop() changes nothing, and nothing arms a timer again.
C34_StopHalts ==
    [][ nstops > 0
        => /\ nticks' = nticks
           /\ timers' = {}
           /\ updateInterval' = Absent
           /\ nstops' # nstops
                => UNCHANGED <<now, limVars, retryVars, aggVars, pureVars, cacheOpVars,
                               sockVars, clientFilters, sockets, inbound, adapter>> ]_vars

\* C34 witness: stop() was called twice after one run had begun; no second run
\* began although the bound on runs would have allowed one
C34_Witness ==
    /\ nstops = 2
    /\ nticks = 1
    /\ timers = {}
    /\ updateInterval = Absent
    /\ emitted # NoRun

\* C35: clientFilters holds entries of connected sockets only: the entry of a
\* socket is gone once it has disconnected and does not come back.
C35_RegistryLifecycle ==
    \A s \in SocketIds :
        /\ s \in DOMAIN clientFilters => sockets[s].state = "connected"
        /\ sockets[s].state # "connected" => s \notin DOMAIN clientFilters

\* C35 witness: a socket that had set filters has disconnected and its entry is
\* gone, while the other socket is connected and has its entry
C35_Witness ==
    \E s, t \in SocketIds :
        /\ sockets[s].state = "closed" /\ sockets[s].filtered
        /\ s \notin DOMAIN clientFilters
        /\ sockets[t].state = "connected"
        /\ t \in DOMAIN clientFilters /\ clientFilters[t] = HttpOptions

(***************************************************************************)
(* One adapter call at a time: the limiter, then the retry wrapper.        *)
(***************************************************************************)
NextAdapter ==
    \/ \E p \in {"p1"} : AdapterCall(p)
    \/ \E p \in {"p1"} : Wake(p)
    \/ AdapterRetry
    \/ \E o \in AdapterOutcomes(Len(history) + 1) : adapter.pc = "retry" /\ RetryInvoke(o)
    \/ adapter.pc = "retry" /\ RetrySleepDone
    \/ Tick

SpecAdapter == Init /\ [][NextAdapter]_vars

\* C36: every adapter call makes exactly one acquire(), which has returned
\* before the call's first upstream request; an upstream request (first or
\* retry) makes no acquire() and takes no slot, and one call issues at most
\* maxRetries + 1 requests.
C36_OneSlotPerCall ==
    [][ /\ calls' = adapter'.started
        /\ (history' # history /\ history' # <<>>)
            => /\ adapter.pc = "retry"
               /\ lpc[adapter.proc] = "idle"
               /\ calls = adapter.started
               /\ UNCHANGED <<calls, requestCount, windowStart>>
        /\ Len(history') <= maxRetries + 1 ]_vars

\* C36 witness: the third call had to sleep in acquire(), was admitted on waking,
\* and then issued maxRetries + 1 upstream requests on its single slot
C36_Witness ==
    /\ adapter.pc = "retry" /\ adapter.started = 3
    /\ rpc = "thrown"
    /\ Len(history) = maxRetries + 1
    /\ calls = 3
    /\ ~winFresh /\ requestCount = 1

(***************************************************************************)
(* Claims about the caching of degraded results, checked under SpecAgg.    *)
(***************************************************************************)
Degraded(c) == call[c].dex = "rejected" \/ call[c].jup = "rejected"
Entry(key) == cache[GetKey(key)]

\* C37: the result aggregateTokens computes while an adapter (or both) rejected
\* is stored under the request's key with config.cache.ttl, as a complete one
\* is; an entry leaves the store only by expiry; and a call for a key whose
\* entry is in the store returns the entry and contacts no adapter.
C37_DegradedCached ==
    [][ /\ \A c \in Callers :
            (call[c].pc = "set" /\ call'[c].pc = "done" /\ call[c].op = "aggregate"
                /\ Degraded(c))
            => /\ GetKey(GenerateCacheKey(call[c].opts)) \in DOMAIN cache'
               /\ cache'[GetKey(GenerateCacheKey(call[c].opts))]
                    = [val |-> JsonStringify(Result(c)), exp |-> now + cacheTtl]
        /\ \A k \in DOMAIN cache :
            k \in DOMAIN cache' \/ (now' = now + 1 /\ cache[k].exp <= now')
        /\ \A c \in Callers :
            (/\ ncalls' = ncalls + 1
             /\ call'[c] # call[c]
             /\ call'[c].op = "aggregate"
             /\ GetKey(GenerateCacheKey(call'[c].opts)) \in DOMAIN cache)
            => /\ call'[c].pc = "done" /\ call'[c].hit
               /\ call'[c].dex = "none" /\ call'[c].jup = "none"
               /\ Val(call'[c].res) = JsonParse(Entry(GenerateCacheKey(call'[c].opts)).val)
      ]_vars

\* C37 witness: a call was answered from the cache with the empty result that
\* an earlier call had computed while both adapters rejected
C37_Witness ==
    \E c \in Callers :
        /\ call[c].pc = "done" /\ call[c].op = "aggregate" /\ call[c].hit
        /\ call[c].opts = NoOptions
        /\ call[c].dex = "none" /\ call[c].jup = "none"
        /\ upstream.dex # <<>>
        /\ Result(c).tokens = <<>> /\ Result(c).total_count = 0
        /\ IsSome(call[c].prev)
        /\ Val(call[c].prev).res = Result(c)

(***************************************************************************)
(* Two overlapping runs of checkForUpdates: the timer fires for k1, and    *)
(* fires again for k2 whether or not k1 has finished.                      *)
(***************************************************************************)
NextOverlap ==
    \/ nticks = 0 /\ TickStart("k1", FALSE)
    \/ nticks = 1 /\ TickStart("k2", FALSE)
    \/ \E k \in TickIds : TickInvalidateDel(k, FALSE)
    \/ \E k \in TickIds : TickAggregate(k, FALSE)
    \/ \E k \in TickIds, u \in SocketScenarios : TickFetched(k, u, TRUE, TRUE)
    \/ \E k \in TickIds : TickCacheWrite(k, FALSE)

SpecOverlap == InitSocket /\ [][NextOverlap]_vars

InFlight(k) == tick[k].pc # "idle"
FinishesRun(k) == InFlight(k) /\ tick'[k].pc = "idle"
\* the run k2 has begun and has stored its snapshot
LaterRunStored == nticks = 2 /\ ~InFlight("k2")

\* C38: the run that started first does not replace, with the snapshot it
\* fetched itself, the snapshot that the run started after it has stored.
C38_SnapshotMonotonic ==
    [][ (FinishesRun("k1") /\ tick["k1"].pc = "set") => ~LaterRunStored ]_vars

(***************************************************************************)
(* The rateLimiter middleware for one client, with the clock.              *)
(***************************************************************************)
NextInbound ==
    \/ \E errIncr \in BOOLEAN, errExpire \in BOOLEAN : RateLimiterRequest(errIncr, errExpire)
    \/ Tick

SpecInbound == Init /\ [][NextInbound]_vars

\* C39: a request of the client that comes a full window or more after its
\* previous request is not answered 429.
C39_ThrottleRecovers ==
    (inbound.status = "429" /\ inbound.n > 1) => inbound.gap < rateLimitWindow

(***************************************************************************)
(* Runs of checkForUpdates over fetches with zero prices and volumes.      *)
(***************************************************************************)
InitZero ==
    /\ now = 0 /\ LimiterInit /\ RetryInit /\ PureIdle /\ CacheOpInit /\ SocketInit /\ EdgeInit
    /\ cache = << >>
    /\ upstream \in ZeroScenarios
    /\ call = [c \in Callers |-> IdleCall]
    /\ ncalls = 0

NextZero ==
    \/ \E k \in TickIds : TickStart(k, FALSE)
    \/ \E k \in TickIds : TickInvalidateDel(k, FALSE)
    \/ \E k \in TickIds : TickAggregate(k, FALSE)
    \/ \E k \in TickIds, u \in ZeroScenarios : TickFetched(k, u, TRUE, TRUE)
    \/ \E k \in TickIds : TickCacheWrite(k, FALSE)

SpecZero == InitZero /\ [][NextZero]_vars

\* C40: for a token of both snapshots whose previous price is 0 the run
\* completes and the token is in the price-update batch exactly when its new
\* price is above 0; likewise for the volume and the volume-spike batch; a
\* token at 0 in both snapshots is in neither batch.
C40_ZeroBaseline ==
    Ran => \A a \in Addresses :
              InBoth(a) =>
                  /\ Val(Prev(a)).price_sol = 0
                        => (InBatch("price_updates", a) <=> Val(New(a)).price_sol > 0)
                  /\ Val(Prev(a)).volume_sol = 0
                        => (InBatch("volume_spikes", a) <=> Val(New(a)).volume_sol > 0)

\* C40 witness: addr1 went from price 0 and volume 0 to 5 and 7 and is in both
\* batches; addr3 stayed at 0 and is in neither
C40_Witness ==
    /\ Ran
    /\ InBoth("addr1") /\ InBoth("addr3")
    /\ Val(Prev("addr1")).price_sol = 0 /\ Val(Prev("addr1")).volume_sol = 0
    /\ Val(New("addr1")).price_sol = 5 /\ Val(New("addr1")).volume_sol = 7
    /\ InBatch("price_updates", "addr1") /\ InBatch("volume_spikes", "addr1")
    /\ Val(Prev("addr3")).price_sol = 0 /\ Val(New("addr3")).price_sol = 0
    /\ Val(Prev("addr3")).volume_sol = 0 /\ Val(New("addr3")).volume_sol = 0
    /\ ~InBatch("price_updates", "addr3") /\ ~InBatch("volume_spikes", "addr3")

====
